---- MODULE Spec2Model ----
(***************************************************************************)
(* The INWX provider of external-dns: the reconciliation pass              *)
(* (INWXProvider.ApplyChanges), the observed-state read                    *)
(* (INWXProvider.Records), the name resolver and record matcher they use,  *)
(* and the in-memory registrar (MockClientWrapper) they run against.       *)
(*                                                                         *)
(* Go strings are sequences of one-character strings, so that suffix       *)
(* tests, splitting and joining are computed and not assumed:              *)
(* "f.a.o" is <<"f", ".", "a", ".", "o">>.  Record identifiers are the     *)
(* decimal strings strconv.Itoa produces; the empty string is the mark of  *)
(* a deleted record, as in the fake registrar.                             *)
(***************************************************************************)
EXTENDS Integers, Sequences, FiniteSets, TLC

\* ------------------------------------------------------------------------
\* strings (package strings, as used by the provider)
\* ------------------------------------------------------------------------

Dot == <<".">>

Hyphen == <<"-">>

HasSuffix(s, suffix) ==
    /\ Len(suffix) <= Len(s)
    /\ SubSeq(s, Len(s) - Len(suffix) + 1, Len(s)) = suffix

TrimSuffix(s, suffix) ==
    IF HasSuffix(s, suffix) THEN SubSeq(s, 1, Len(s) - Len(suffix)) ELSE s

RECURSIVE Split(_)
Split(s) ==
    IF \A k \in 1..Len(s) : s[k] # "."
    THEN <<s>>
    ELSE LET k == CHOOSE k \in 1..Len(s) :
                      s[k] = "." /\ \A m \in 1..(k - 1) : s[m] # "."
         IN  <<SubSeq(s, 1, k - 1)>> \o Split(SubSeq(s, k + 1, Len(s)))

RECURSIVE Join(_)
Join(labels) ==
    IF Len(labels) = 0 THEN <<>>
    ELSE IF Len(labels) = 1 THEN labels[1]
    ELSE labels[1] \o Dot \o Join(Tail(labels))

\* ------------------------------------------------------------------------
\* Name resolver
\* ------------------------------------------------------------------------

\* A loop that may strip every label of the name.
RECURSIVE strippedLabelsToEmpty(_, _, _)
strippedLabelsToEmpty(nameLabels, zoneLabels, stripped) ==
    IF /\ stripped < Len(zoneLabels)
       /\ stripped < Len(nameLabels)
       /\ nameLabels[Len(nameLabels) - stripped] = zoneLabels[Len(zoneLabels) - stripped]
    THEN strippedLabelsToEmpty(nameLabels, zoneLabels, stripped + 1)
    ELSE stripped

\* The loop of extractRecordName: the number of trailing labels stripped.
RECURSIVE strippedLabels(_, _, _)
strippedLabels(nameLabels, zoneLabels, stripped) ==
    IF /\ stripped < Len(zoneLabels)
       /\ stripped < Len(nameLabels) - 1
       /\ nameLabels[Len(nameLabels) - stripped] = zoneLabels[Len(zoneLabels) - stripped]
    THEN strippedLabels(nameLabels, zoneLabels, stripped + 1)
    ELSE stripped

\* extractRecordName without the loop over the labels: the name without the
\* zone after a dot, whatever its labels.
extractRecordNameKeepingLabels(dnsName, zone) ==
    IF dnsName = zone THEN <<>>
    ELSE TrimSuffix(dnsName, Dot \o zone)

extractRecordName(dnsName, zone) ==
    IF dnsName = zone THEN <<>>
    ELSE LET name == TrimSuffix(dnsName, Dot \o zone)
             nameLabels == Split(name)
             zoneLabels == Split(zone)
             stripped == strippedLabels(nameLabels, zoneLabels, 0)
         IN  IF stripped > 0
             THEN Join(SubSeq(nameLabels, 1, Len(nameLabels) - stripped))
             ELSE name

\* A Go error value.  NoError is nil; an API error carries the registrar's
\* code, every other error is a plain one.
NoError == [kind |-> "nil"]

PlainError(what) == [kind |-> "plain", what |-> what]

APIError(code) == [kind |-> "api", code |-> code]

\* A first loop that keeps the last zone that matches, whatever its length.
RECURSIVE dotBoundaryLastMatch(_, _, _)
dotBoundaryLastMatch(zones, dnsName, match) ==
    IF zones = <<>> THEN match
    ELSE LET zone == Head(zones)
         IN  dotBoundaryLastMatch(Tail(zones), dnsName,
                IF dnsName = zone \/ HasSuffix(dnsName, Dot \o zone)
                THEN [zone |-> zone, err |-> NoError]
                ELSE match)

\* First loop of getZone: the longest zone matching at a dot boundary.
RECURSIVE dotBoundaryMatch(_, _, _)
dotBoundaryMatch(zones, dnsName, match) ==
    IF zones = <<>> THEN match
    ELSE LET zone == Head(zones)
         IN  dotBoundaryMatch(Tail(zones), dnsName,
                IF /\ (dnsName = zone \/ HasSuffix(dnsName, Dot \o zone))
                   /\ Len(zone) > Len(match.zone)
                THEN [zone |-> zone, err |-> NoError]
                ELSE match)

\* A second loop that keeps the first zone that matches.
RECURSIVE hyphenBoundaryFirstMatch(_, _, _)
hyphenBoundaryFirstMatch(zones, dnsName, match) ==
    IF zones = <<>> THEN match
    ELSE LET zone == Head(zones)
         IN  hyphenBoundaryFirstMatch(Tail(zones), dnsName,
                IF HasSuffix(dnsName, Hyphen \o zone) /\ match.zone = <<>>
                THEN [zone |-> zone, err |-> NoError]
                ELSE match)

\* Second loop of getZone: the longest zone matching after a hyphen.
RECURSIVE hyphenBoundaryMatch(_, _, _)
hyphenBoundaryMatch(zones, dnsName, match) ==
    IF zones = <<>> THEN match
    ELSE LET zone == Head(zones)
         IN  hyphenBoundaryMatch(Tail(zones), dnsName,
                IF /\ HasSuffix(dnsName, Hyphen \o zone)
                   /\ Len(zone) > Len(match.zone)
                THEN [zone |-> zone, err |-> NoError]
                ELSE match)

\* A getZone without the second loop.
getZoneDotOnly(zones, dnsName) ==
    dotBoundaryMatch(zones, dnsName, [zone |-> <<>>, err |-> PlainError("zone")])

getZone(zones, dnsName) ==
    LET first == dotBoundaryMatch(zones, dnsName,
                    [zone |-> <<>>, err |-> PlainError("zone")])
    IN  IF first.zone = <<>>
        THEN hyphenBoundaryMatch(zones, dnsName, first)
        ELSE first

\* ------------------------------------------------------------------------
\* Record matcher
\* ------------------------------------------------------------------------

\* The nested loops of getRecIDs: for every target in order, the
\* identifiers of all the records that match it.
RECURSIVE matchedIDs(_, _, _, _)
matchedIDs(targets, records, recordType, targetName) ==
    IF targets = <<>> THEN <<>>
    ELSE LET Match(record) == /\ recordType = record.Type
                              /\ Head(targets) = record.Content
                              /\ record.Name = targetName
             hits == SelectSeq(records, Match)
         IN  [k \in 1..Len(hits) |-> hits[k].ID]
                \o matchedIDs(Tail(targets), records, recordType, targetName)

getRecIDs(zone, records, ep) ==
    LET targetName == extractRecordName(ep.DNSName, zone)
        recIDs == matchedIDs(ep.Targets, records, ep.RecordType, targetName)
    IN  IF Len(recIDs) # Len(ep.Targets)
        THEN [recIDs |-> <<>>, err |-> PlainError("mapping")]
        ELSE [recIDs |-> recIDs, err |-> NoError]

findRecordsByNameAndType(zone, records, dnsName, recordType) ==
    LET targetName == extractRecordName(dnsName, zone)
        Match(record) == recordType = record.Type /\ record.Name = targetName
    IN  SelectSeq(records, Match)

\* The identifier of the first record with the content, "" when none has it.
findExactRecord(records, content) ==
    IF \E k \in 1..Len(records) : records[k].Content = content
    THEN records[CHOOSE k \in 1..Len(records) :
                     /\ records[k].Content = content
                     /\ \A m \in 1..(k - 1) : records[m].Content # content].ID
    ELSE ""

\* Every error of the registrar taken for the object-exists condition.
isObjectExistsErrorOfAnyKind(err) == err.kind # "nil"

isObjectExistsError(err) == err.kind = "api" /\ err.code = 2302

\* ------------------------------------------------------------------------
\* The in-memory registrar (MockClientWrapper)
\* ------------------------------------------------------------------------

NameserverRecord(id, r) ==
    [ID |-> id, Name |-> r.Name, Type |-> r.Type, Content |-> r.Content, TTL |-> r.TTL]

\* Index of the first record with the identifier, 0 when there is none
\* (the code's -1, its indices being 0-based).
findRecord(recs, recID) ==
    IF \E k \in 1..Len(recs) : recs[k].ID = recID
    THEN CHOOSE k \in 1..Len(recs) :
             recs[k].ID = recID /\ \A m \in 1..(k - 1) : recs[m].ID # recID
    ELSE 0

MockGetRecords(d, domain) ==
    IF domain \notin DOMAIN d
    THEN [recs |-> <<>>, err |-> PlainError("key not found")]
    ELSE LET Undeleted(rec) == rec.ID # ""
         IN  [recs |-> SelectSeq(d[domain], Undeleted), err |-> NoError]

MockCreateRecord(d, iz, r) ==
    IF r.Domain \notin DOMAIN d
    THEN [db |-> d, idToZone |-> iz, err |-> PlainError("zone not found")]
    ELSE LET recs == d[r.Domain]
             id == ToString(Len(recs))
         IN  [db |-> [d EXCEPT ![r.Domain] = Append(recs, NameserverRecord(id, r))],
              idToZone |-> (id :> r.Domain) @@ iz,
              err |-> NoError]

MockUpdateRecord(d, iz, recID, r) ==
    IF r.Domain \notin DOMAIN d
    THEN [db |-> d, idToZone |-> iz, err |-> PlainError("zone not found")]
    ELSE LET idx == findRecord(d[r.Domain], recID)
         IN  IF idx = 0
             THEN [db |-> d, idToZone |-> iz, err |-> PlainError("record not found")]
             ELSE [db |-> [d EXCEPT ![r.Domain][idx] = NameserverRecord(recID, r)],
                   idToZone |-> iz,
                   err |-> NoError]

MockDeleteRecord(d, iz, recID) ==
    IF recID \notin DOMAIN iz
    THEN [db |-> d, idToZone |-> iz, err |-> PlainError("zone for record not found")]
    ELSE LET zone == iz[recID]
         IN  IF zone \notin DOMAIN d
             THEN [db |-> d, idToZone |-> iz, err |-> PlainError("zone not found")]
             ELSE LET idx == findRecord(d[zone], recID)
                  IN  IF idx = 0
                      THEN [db |-> d, idToZone |-> iz,
                            err |-> PlainError("record not found")]
                      ELSE IF d[zone][idx].ID = ""
                      THEN [db |-> d, idToZone |-> iz,
                            err |-> PlainError("already deleted")]
                      ELSE [db |-> [d EXCEPT ![zone][idx].ID = ""],
                            idToZone |-> iz,
                            err |-> NoError]

\* ------------------------------------------------------------------------
\* The values the model runs over
\* ------------------------------------------------------------------------

\* Bounds of the model.
MaxTargets == 2

\* Invocations of the provider (ApplyChanges or Records) in one behaviour.
MaxCalls == 1

\* Passes in a behaviour that applies a ChangeSet a second time.
MaxPasses == 2

\* Registrar calls of one invocation that fail on their own account.
MaxFaults == 1

\* Records a test puts into the registrar before the provider runs.
MaxSeed == 2

ZoneA == <<"a", ".", "o">>

ZoneB == <<"b", ".", "o">>

Zones == {ZoneA, ZoneB}

\* f.a.o and f.b.o: the same record name in the two zones.
NameFA == <<"f">> \o Dot \o ZoneA

NameFB == <<"f">> \o Dot \o ZoneB

\* f.x.y is in no zone.
NameNoZone == <<"f", ".", "x", ".", "y">>

Contents == {"1.1.1.1", "2.2.2.2"}

TargetLists == UNION {[1..n -> Contents] : n \in 1..MaxTargets}

\* The orders in which a Go map may hand out its keys.
Orders(S) ==
    {s \in [1..Cardinality(S) -> S] : \A a, b \in 1..Cardinality(S) : a # b => s[a] # s[b]}

Endpoint(name, type, targets, ttl) ==
    [DNSName |-> name, RecordType |-> type, Targets |-> targets, RecordTTL |-> ttl]

\* plan.Changes
Changes(delete, create, updateOld, updateNew) ==
    [Delete |-> delete, Create |-> create, UpdateOld |-> updateOld, UpdateNew |-> updateNew]

\* plan.Changes.HasChanges of external-dns: a create or a delete, or update
\* lists that differ.
HasChanges(c) ==
    Len(c.Create) > 0 \/ Len(c.Delete) > 0 \/ c.UpdateNew # c.UpdateOld

NameserverRecordRequest(domain, name, type, ttl, content) ==
    [Domain |-> domain, Name |-> name, Type |-> type, TTL |-> ttl, Content |-> content]

\* ------------------------------------------------------------------------
\* State
\* ------------------------------------------------------------------------

VARIABLES
    db,            \* MockClientWrapper.db: zone -> records, deleted ones included
    idToZone,      \* MockClientWrapper.idToZone
    pc,            \* position of the provider: "init", a place in a handler, "done"
    op,            \* the handler running or last run
    changes,       \* the ChangeSet of the ApplyChanges invocation
    zones,         \* the zone list getZones returned
    errs,          \* the errors recorded by the pass
    recordsCache,  \* the zone-record cache of the current phase
    i,             \* index of the endpoint (or zone) of the current loop
    j,             \* index of the target or identifier of the inner loop
    zone,          \* zone of the current endpoint
    recIDs,        \* identifiers matched for the current endpoint
    endpoints,     \* the endpoints Records has collected
    result,        \* the error the invocation returned
    calls,         \* the registrar calls of the invocation, in order
    faults,        \* registrar calls of the invocation that failed on their own
    invocations,   \* invocations so far
    seeded,        \* records put into the registrar before the provider ran
    start,         \* the registrar when the invocation began
    prev,          \* the invocation before this one
    input,         \* the arguments of a function called on its own
    output         \* what that function returned

vars == <<db, idToZone, pc, op, changes, zones, errs, recordsCache, i, j, zone,
          recIDs, endpoints, result, calls, faults, invocations, seeded, start, prev,
          input, output>>

mock == <<db, idToZone>>

locals == <<zones, errs, recordsCache, i, j, zone, recIDs, endpoints>>

history == <<start, prev>>

pure == <<input, output>>

\* No function has been called on its own, or it has not returned yet.
Nothing == [fn |-> "none"]

NoChanges == Changes(<<>>, <<>>, <<>>, <<>>)

EmptyCache == <<>>

Pending == [kind |-> "pending"]

\* NewINWXProviderWithMockClient: a registrar without zones.
Constructed ==
    /\ db = <<>>
    /\ idToZone = <<>>
    /\ pc = "init"
    /\ op = "none"
    /\ changes = NoChanges
    /\ zones = <<>>
    /\ errs = <<>>
    /\ recordsCache = EmptyCache
    /\ i = 0
    /\ j = 0
    /\ zone = <<>>
    /\ recIDs = <<>>
    /\ endpoints = <<>>
    /\ result = NoError
    /\ calls = <<>>
    /\ faults = 0
    /\ invocations = 0
    /\ seeded = 0
    /\ start = [db |-> <<>>, idToZone |-> <<>>]
    /\ prev = [op |-> "none"]

Init ==
    /\ Constructed
    /\ input = Nothing
    /\ output = Nothing

\* ------------------------------------------------------------------------
\* The registrar as the provider calls it (AbstractClientWrapper): a call
\* fails with the given fault, and is the in-memory registrar's otherwise.
\* ------------------------------------------------------------------------

TransportError == PlainError("transport")

ObjectExists == APIError(2302)

SessionFaults == {NoError, TransportError}

ReadFaults == {NoError, TransportError}

WriteFaults == {NoError, TransportError, ObjectExists}

Unchanged(err) == [db |-> db, idToZone |-> idToZone, err |-> err]

ClientGetRecords(fault, domain) ==
    IF fault # NoError THEN [recs |-> <<>>, err |-> fault]
    ELSE MockGetRecords(db, domain)

ClientCreateRecord(fault, r) ==
    IF fault # NoError THEN Unchanged(fault) ELSE MockCreateRecord(db, idToZone, r)

ClientUpdateRecord(fault, recID, r) ==
    IF fault # NoError THEN Unchanged(fault) ELSE MockUpdateRecord(db, idToZone, recID, r)

ClientDeleteRecord(fault, recID) ==
    IF fault # NoError THEN Unchanged(fault) ELSE MockDeleteRecord(db, idToZone, recID)

\* One entry of the call log: the call, its argument, the error and the
\* records it returned, and where the provider was.
Called(name, arg, err, ret) ==
    [op |-> name, arg |-> arg, err |-> err, ret |-> ret, pc |-> pc, ep |-> i, tgt |-> j]

Call(name, arg, err) == Called(name, arg, err, <<>>)

Login(err) ==
    [op |-> "login", arg |-> <<>>, err |-> err, ret |-> <<>>, pc |-> "login",
     ep |-> 0, tgt |-> 0]

\* The fault budget of an invocation.
Inject(fault) ==
    /\ fault # NoError => faults < MaxFaults
    /\ faults' = IF fault # NoError THEN faults + 1 ELSE faults

Idle == pc \in {"init", "done"}

\* ------------------------------------------------------------------------
\* What a test does to the registrar before the provider runs
\* ------------------------------------------------------------------------

\* MockClientWrapper.CreateZone (it panics when the zone exists).
CreateZone(z) ==
    /\ pc = "init"
    /\ z \notin DOMAIN db
    /\ db' = (z :> <<>>) @@ db
    /\ UNCHANGED <<idToZone, pc, op, changes, locals, result, calls, faults,
                   invocations, seeded, history, pure>>

SeedRequests ==
    {NameserverRecordRequest(ZoneA, <<"f">>, "A", 60, c) : c \in Contents}
        \cup {NameserverRecordRequest(ZoneB, <<"f">>, "A", 60, "1.1.1.1")}

\* A direct createRecord on the fake registrar.
SeedRecord(r) ==
    /\ pc = "init"
    /\ seeded < MaxSeed
    /\ r.Domain \in DOMAIN db
    /\ seeded' = seeded + 1
    /\ LET res == MockCreateRecord(db, idToZone, r)
       IN  db' = res.db /\ idToZone' = res.idToZone
    /\ UNCHANGED <<pc, op, changes, locals, result, calls, faults, invocations, history, pure>>

\* ------------------------------------------------------------------------
\* INWXProvider.ApplyChanges
\* ------------------------------------------------------------------------

PhaseList(c, phase) ==
    IF phase = "delete" THEN c.Delete
    ELSE IF phase = "create" THEN c.Create
    ELSE c.UpdateOld

\* Where control is when the loop of a phase reaches index idx: at that
\* endpoint, at the first endpoint of the next phase that has one, or at
\* the end of the pass.
RECURSIVE loopHead(_, _, _)
loopHeadUpdateFirst(c, phase, idx) ==
    IF phase = "return" THEN [pc |-> "logout", i |-> 0]
    ELSE IF idx <= Len(PhaseList(c, phase)) THEN [pc |-> phase, i |-> idx]
    ELSE loopHead(c, IF phase = "delete" THEN "update"
                     ELSE IF phase = "update" THEN "create"
                     ELSE "return", 1)

loopHead(c, phase, idx) ==
    IF phase = "return" THEN [pc |-> "logout", i |-> 0]
    ELSE IF idx <= Len(PhaseList(c, phase)) THEN [pc |-> phase, i |-> idx]
    ELSE loopHead(c, IF phase = "delete" THEN "create"
                     ELSE IF phase = "create" THEN "update"
                     ELSE "return", 1)

\* An aggregate that lets a single error pass.
AggregateAboveOne(errors) ==
    IF Len(errors) > 1
    THEN [kind |-> "plain", what |-> "aggregate", count |-> Len(errors)]
    ELSE NoError

\* The value ApplyChanges returns at the end of the pass.
Aggregate(errors) ==
    IF Len(errors) > 0
    THEN [kind |-> "plain", what |-> "aggregate", count |-> Len(errors)]
    ELSE NoError

Record(errors, err) == IF err # NoError THEN Append(errors, err) ELSE errors

\* A pass that stops at the first endpoint that recorded an error.
NextEndpointStopping(phase, errors, cache) ==
    LET head == IF Len(errors) > Len(errs) THEN [pc |-> "logout", i |-> 0]
                ELSE loopHead(changes, phase, i + 1)
    IN  /\ pc' = head.pc
        /\ i' = head.i
        /\ j' = 0
        /\ zone' = <<>>
        /\ recIDs' = <<>>
        /\ errs' = errors
        /\ recordsCache' = IF head.pc = phase THEN cache ELSE EmptyCache
        /\ result' = IF head.pc = "logout" THEN Aggregate(errors) ELSE result

\* The endpoint at index i of the phase is finished: on to the next one.
\* The cache is emptied when the phase ends.
NextEndpoint(phase, errors, cache) ==
    LET head == loopHead(changes, phase, i + 1)
    IN  /\ pc' = head.pc
        /\ i' = head.i
        /\ j' = 0
        /\ zone' = <<>>
        /\ recIDs' = <<>>
        /\ errs' = errors
        /\ recordsCache' = IF head.pc = phase THEN cache ELSE EmptyCache
        /\ result' = IF head.pc = "logout" THEN Aggregate(errors) ELSE result

\* The next turn of the inner loop of the endpoint, or the next endpoint.
NextIndex(phase, last, errors) ==
    IF j < last
    THEN /\ j' = j + 1
         /\ errs' = errors
         /\ UNCHANGED <<pc, i, zone, recIDs, recordsCache, result>>
    ELSE NextEndpoint(phase, errors, recordsCache)

\* A pass that never takes the short way out.
shortCircuitNever(c) == FALSE

\* The pass ends before its first registrar call.
shortCircuit(c) == ~HasChanges(c)

\* A handler that goes on after a failed login.
afterLoginIgnoringError(err, next) == next

\* Where a handler goes after login: it returns when login failed.
afterLogin(err, next) == IF err # NoError THEN "done" ELSE next

\* The entry of ApplyChanges: the short way out, or login.
Enter(c, fault) ==
    /\ Idle
    /\ invocations' = invocations + 1
    /\ op' = "ApplyChanges"
    /\ changes' = c
    /\ start' = [db |-> db, idToZone |-> idToZone]
    /\ prev' = [op |-> op, changes |-> changes, calls |-> calls,
                result |-> result, start |-> start]
    /\ zones' = <<>>
    /\ errs' = <<>>
    /\ recordsCache' = EmptyCache
    /\ i' = 0
    /\ j' = 0
    /\ zone' = <<>>
    /\ recIDs' = <<>>
    /\ endpoints' = <<>>
    /\ IF shortCircuit(c)
       THEN /\ fault = NoError
            /\ calls' = <<>>
            /\ faults' = 0
            /\ pc' = "done"
            /\ result' = NoError
       ELSE /\ calls' = <<Login(fault)>>
            /\ faults' = IF fault # NoError THEN 1 ELSE 0
            /\ pc' = afterLogin(fault, "getZones")
            /\ result' = IF fault # NoError THEN fault ELSE Pending
    /\ UNCHANGED <<mock, seeded, pure>>

ApplyChanges(c, fault) ==
    /\ invocations < MaxCalls
    /\ Enter(c, fault)

\* The ChangeSet of the pass that has ended is applied once more.
Reapply(fault) ==
    /\ op = "ApplyChanges"
    /\ pc = "done"
    /\ invocations < MaxPasses
    /\ Enter(changes, fault)

GetZones(fault, order) ==
    /\ pc = "getZones"
    /\ Inject(fault)
    /\ calls' = Append(calls, Call("getZones", <<>>, fault))
    /\ IF fault # NoError
       THEN /\ pc' = "logout"
            /\ result' = fault
            /\ UNCHANGED <<zones, errs, recordsCache, i, j, zone, recIDs>>
       ELSE /\ zones' = order
            /\ NextEndpoint("delete", <<>>, EmptyCache)
    /\ UNCHANGED <<mock, op, changes, endpoints, invocations, seeded, history, pure>>

\* A logout whose error becomes the result of the invocation.
LogoutOverriding(fault) ==
    /\ pc = "logout"
    /\ Inject(fault)
    /\ calls' = Append(calls, Call("logout", <<>>, fault))
    /\ pc' = "done"
    /\ result' = IF fault # NoError THEN fault ELSE result
    /\ UNCHANGED <<mock, op, changes, locals, invocations, seeded, history, pure>>

\* The deferred logout: its error is logged and the result stays.
Logout(fault) ==
    /\ pc = "logout"
    /\ Inject(fault)
    /\ calls' = Append(calls, Call("logout", <<>>, fault))
    /\ pc' = "done"
    /\ UNCHANGED <<mock, op, changes, locals, result, invocations, seeded, history, pure>>

\* --- Delete phase ---

DeleteMatch(cache, errors, z) ==
    LET m == getRecIDs(z, cache[z], changes.Delete[i])
        errors2 == Record(errors, m.err)
    IN  IF Len(m.recIDs) = 0
        THEN NextEndpoint("delete", errors2, cache)
        ELSE /\ pc' = "deleteRecord"
             /\ j' = 1
             /\ zone' = z
             /\ recIDs' = m.recIDs
             /\ errs' = errors2
             /\ recordsCache' = cache
             /\ UNCHANGED <<i, result>>

DeleteEndpoint ==
    /\ pc = "delete"
    /\ LET z == getZone(zones, changes.Delete[i].DNSName)
       IN  IF z.err # NoError
           THEN NextEndpoint("delete", Append(errs, z.err), recordsCache)
           ELSE IF z.zone \notin DOMAIN recordsCache
           THEN /\ pc' = "deleteFetch"
                /\ zone' = z.zone
                /\ UNCHANGED <<i, j, recIDs, errs, recordsCache, result>>
           ELSE DeleteMatch(recordsCache, errs, z.zone)
    /\ UNCHANGED <<mock, op, changes, zones, endpoints, calls, faults, invocations,
                   seeded, history, pure>>

DeleteFetch(fault) ==
    /\ pc = "deleteFetch"
    /\ Inject(fault)
    /\ LET r == ClientGetRecords(fault, zone)
       IN  /\ calls' = Append(calls, Called("getRecords", zone, r.err, r.recs))
           /\ IF r.err # NoError
              THEN NextEndpoint("delete", Append(errs, r.err), recordsCache)
              ELSE DeleteMatch((zone :> r.recs) @@ recordsCache, errs, zone)
    /\ UNCHANGED <<mock, op, changes, zones, endpoints, invocations, seeded, history, pure>>

DeleteRecord(fault) ==
    /\ pc = "deleteRecord"
    /\ Inject(fault)
    /\ LET r == ClientDeleteRecord(fault, recIDs[j])
       IN  /\ db' = r.db
           /\ idToZone' = r.idToZone
           /\ calls' = Append(calls, Call("deleteRecord", recIDs[j], r.err))
           /\ NextIndex("delete", Len(recIDs), Record(errs, r.err))
    /\ UNCHANGED <<op, changes, zones, endpoints, invocations, seeded, history, pure>>

\* --- Create phase ---

\* Enter the loop over the targets of the endpoint.
CreateTargets(cache, z) ==
    IF Len(changes.Create[i].Targets) = 0
    THEN NextEndpoint("create", errs, cache)
    ELSE /\ pc' = "createTarget"
         /\ j' = 1
         /\ zone' = z
         /\ recordsCache' = cache
         /\ UNCHANGED <<i, recIDs, errs, result>>

\* A Create phase that asks for the records of the zone for every endpoint.
CreateEndpointRefetching ==
    /\ pc = "create"
    /\ LET z == getZone(zones, changes.Create[i].DNSName)
       IN  IF z.err # NoError
           THEN NextEndpoint("create", Append(errs, z.err), recordsCache)
           ELSE /\ pc' = "createFetch"
                /\ zone' = z.zone
                /\ UNCHANGED <<i, j, recIDs, errs, recordsCache, result>>
    /\ UNCHANGED <<mock, op, changes, zones, endpoints, calls, faults, invocations,
                   seeded, history, pure>>

CreateEndpoint ==
    /\ pc = "create"
    /\ LET z == getZone(zones, changes.Create[i].DNSName)
       IN  IF z.err # NoError
           THEN NextEndpoint("create", Append(errs, z.err), recordsCache)
           ELSE IF z.zone \notin DOMAIN recordsCache
           THEN /\ pc' = "createFetch"
                /\ zone' = z.zone
                /\ UNCHANGED <<i, j, recIDs, errs, recordsCache, result>>
           ELSE CreateTargets(recordsCache, z.zone)
    /\ UNCHANGED <<mock, op, changes, zones, endpoints, calls, faults, invocations,
                   seeded, history, pure>>

CreateFetch(fault) ==
    /\ pc = "createFetch"
    /\ Inject(fault)
    /\ LET r == ClientGetRecords(fault, zone)
       IN  /\ calls' = Append(calls, Called("getRecords", zone, r.err, r.recs))
           /\ IF r.err # NoError
              THEN NextEndpoint("create", Append(errs, r.err), recordsCache)
              ELSE CreateTargets((zone :> r.recs) @@ recordsCache, zone)
    /\ UNCHANGED <<mock, op, changes, zones, endpoints, invocations, seeded, history, pure>>

\* A Create phase that never updates in place.
createDecisionWithoutUpdate(existing, ep, target) ==
    IF findExactRecord(existing, target) # "" THEN "skip" ELSE "create"

\* What the Create phase does for one target: nothing, an update in place
\* of the one record with the name and type, or a create.
createDecision(existing, ep, target) ==
    IF findExactRecord(existing, target) # "" THEN "skip"
    ELSE IF Len(existing) = 1 /\ Len(ep.Targets) = 1 THEN "update"
    ELSE "create"

\* A failed create is recorded unless the registrar says the object exists.
createError(errors, err) ==
    IF err # NoError /\ ~isObjectExistsError(err) THEN Append(errors, err) ELSE errors

CreateTarget(fault) ==
    /\ pc = "createTarget"
    /\ LET ep == changes.Create[i]
           target == ep.Targets[j]
           name == extractRecordName(ep.DNSName, zone)
           existing == findRecordsByNameAndType(zone, recordsCache[zone],
                                                ep.DNSName, ep.RecordType)
           rec == NameserverRecordRequest(zone, name, ep.RecordType, ep.RecordTTL, target)
           decision == createDecision(existing, ep, target)
       IN  CASE decision = "skip" ->
                    /\ fault = NoError
                    /\ UNCHANGED <<mock, calls, faults>>
                    /\ NextIndex("create", Len(ep.Targets), errs)
             [] decision = "update" ->
                    LET r == ClientUpdateRecord(fault, existing[1].ID, rec)
                    IN  /\ Inject(fault)
                        /\ db' = r.db
                        /\ idToZone' = r.idToZone
                        /\ calls' = Append(calls,
                              Call("updateRecord", [id |-> existing[1].ID, rec |-> rec], r.err))
                        /\ NextIndex("create", Len(ep.Targets), Record(errs, r.err))
             [] decision = "create" ->
                    LET r == ClientCreateRecord(fault, rec)
                    IN  /\ Inject(fault)
                        /\ db' = r.db
                        /\ idToZone' = r.idToZone
                        /\ calls' = Append(calls, Call("createRecord", rec, r.err))
                        /\ NextIndex("create", Len(ep.Targets), createError(errs, r.err))
    /\ UNCHANGED <<op, changes, zones, endpoints, invocations, seeded, history, pure>>

\* --- Update phase ---

Max(a, b) == IF a >= b THEN a ELSE b

\* After the records of the zone are there: match the old endpoint, and
\* take the fallback path or the paired path.
UpdatePlan(cache, errors, z) ==
    LET oldEp == changes.UpdateOld[i]
        newEp == changes.UpdateNew[i]
        m == getRecIDs(z, cache[z], oldEp)
        n == IF m.err # NoError THEN Len(newEp.Targets)
             ELSE Max(Max(Len(oldEp.Targets), Len(newEp.Targets)), Len(m.recIDs))
    IN  IF n = 0
        THEN NextEndpoint("update", errors, cache)
        ELSE /\ pc' = IF m.err # NoError THEN "fallback" ELSE "paired"
             /\ j' = 1
             /\ zone' = z
             /\ recIDs' = m.recIDs
             /\ errs' = errors
             /\ recordsCache' = cache
             /\ UNCHANGED <<i, result>>

UpdateEndpoint ==
    /\ pc = "update"
    /\ LET z == getZone(zones, changes.UpdateOld[i].DNSName)
       IN  IF z.err # NoError
           THEN NextEndpoint("update", Append(errs, z.err), recordsCache)
           ELSE IF z.zone \notin DOMAIN recordsCache
           THEN /\ pc' = "updateFetch"
                /\ zone' = z.zone
                /\ UNCHANGED <<i, j, recIDs, errs, recordsCache, result>>
           ELSE UpdatePlan(recordsCache, errs, z.zone)
    /\ UNCHANGED <<mock, op, changes, zones, endpoints, calls, faults, invocations,
                   seeded, history, pure>>

UpdateFetch(fault) ==
    /\ pc = "updateFetch"
    /\ Inject(fault)
    /\ LET r == ClientGetRecords(fault, zone)
       IN  /\ calls' = Append(calls, Called("getRecords", zone, r.err, r.recs))
           /\ IF r.err # NoError
              THEN NextEndpoint("update", Append(errs, r.err), recordsCache)
              ELSE UpdatePlan((zone :> r.recs) @@ recordsCache, errs, zone)
    /\ UNCHANGED <<mock, op, changes, zones, endpoints, invocations, seeded, history, pure>>

\* The old records were not found: create the targets of the new endpoint
\* that the snapshot does not hold.
Fallback(fault) ==
    /\ pc = "fallback"
    /\ LET newEp == changes.UpdateNew[i]
           target == newEp.Targets[j]
           name == extractRecordName(newEp.DNSName, zone)
           existing == findRecordsByNameAndType(zone, recordsCache[zone],
                                                newEp.DNSName, newEp.RecordType)
           rec == NameserverRecordRequest(zone, name, newEp.RecordType,
                                          newEp.RecordTTL, target)
       IN  IF findExactRecord(existing, target) # ""
           THEN /\ fault = NoError
                /\ UNCHANGED <<mock, calls, faults>>
                /\ NextIndex("update", Len(newEp.Targets), errs)
           ELSE LET r == ClientCreateRecord(fault, rec)
                IN  /\ Inject(fault)
                    /\ db' = r.db
                    /\ idToZone' = r.idToZone
                    /\ calls' = Append(calls, Call("createRecord", rec, r.err))
                    /\ NextIndex("update", Len(newEp.Targets), createError(errs, r.err))
    /\ UNCHANGED <<op, changes, zones, endpoints, invocations, seeded, history, pure>>

\* What the paired path does at index j (1-based here).
pairedCase(oldEp, newEp) ==
    IF j > Len(newEp.Targets) THEN "delete"
    ELSE IF j > Len(oldEp.Targets) THEN "create"
    ELSE "update"

Paired(fault) ==
    /\ pc = "paired"
    /\ Inject(fault)
    /\ LET oldEp == changes.UpdateOld[i]
           newEp == changes.UpdateNew[i]
           name == extractRecordName(newEp.DNSName, zone)
           n == Max(Max(Len(oldEp.Targets), Len(newEp.Targets)), Len(recIDs))
           which == pairedCase(oldEp, newEp)
       IN  CASE which = "delete" ->
                    LET r == ClientDeleteRecord(fault, recIDs[j])
                    IN  /\ db' = r.db
                        /\ idToZone' = r.idToZone
                        /\ calls' = Append(calls, Call("deleteRecord", recIDs[j], r.err))
                        /\ NextIndex("update", n, Record(errs, r.err))
             [] which = "create" ->
                    LET rec == NameserverRecordRequest(zone, name, newEp.RecordType,
                                                       newEp.RecordTTL, newEp.Targets[j])
                        r == ClientCreateRecord(fault, rec)
                    IN  /\ db' = r.db
                        /\ idToZone' = r.idToZone
                        /\ calls' = Append(calls, Call("createRecord", rec, r.err))
                        /\ NextIndex("update", n, createError(errs, r.err))
             [] which = "update" ->
                    LET rec == NameserverRecordRequest(zone, name, newEp.RecordType,
                                                       oldEp.RecordTTL, newEp.Targets[j])
                        r == ClientUpdateRecord(fault, recIDs[j], rec)
                    IN  /\ db' = r.db
                        /\ idToZone' = r.idToZone
                        /\ calls' = Append(calls,
                              Call("updateRecord", [id |-> recIDs[j], rec |-> rec], r.err))
                        /\ NextIndex("update", n, Record(errs, r.err))
    /\ UNCHANGED <<op, changes, zones, endpoints, invocations, seeded, history, pure>>

\* ------------------------------------------------------------------------
\* INWXProvider.Records
\* ------------------------------------------------------------------------

Records(fault) ==
    /\ Idle
    /\ invocations < MaxCalls
    /\ invocations' = invocations + 1
    /\ op' = "Records"
    /\ changes' = NoChanges
    /\ start' = [db |-> db, idToZone |-> idToZone]
    /\ prev' = [op |-> op, changes |-> changes, calls |-> calls,
                result |-> result, start |-> start]
    /\ zones' = <<>>
    /\ errs' = <<>>
    /\ recordsCache' = EmptyCache
    /\ i' = 0
    /\ j' = 0
    /\ zone' = <<>>
    /\ recIDs' = <<>>
    /\ endpoints' = <<>>
    /\ calls' = <<Login(fault)>>
    /\ faults' = IF fault # NoError THEN 1 ELSE 0
    /\ pc' = afterLogin(fault, "recordsZones")
    /\ result' = IF fault # NoError THEN fault ELSE Pending
    /\ UNCHANGED <<mock, seeded, pure>>

RecordsGetZones(fault, order) ==
    /\ pc = "recordsZones"
    /\ Inject(fault)
    /\ calls' = Append(calls, Call("getZones", <<>>, fault))
    /\ IF fault # NoError
       THEN /\ pc' = "logout"
            /\ result' = fault
            /\ UNCHANGED <<zones, i>>
       ELSE /\ zones' = order
            /\ pc' = IF Len(order) = 0 THEN "logout" ELSE "recordsFetch"
            /\ i' = IF Len(order) = 0 THEN 0 ELSE 1
            /\ result' = IF Len(order) = 0 THEN NoError ELSE result
    /\ UNCHANGED <<mock, op, changes, errs, recordsCache, j, zone, recIDs, endpoints,
                   invocations, seeded, history, pure>>

observedRelative(rec, z) ==
    Endpoint(rec.Name, rec.Type, <<rec.Content>>, rec.TTL)

\* One endpoint with one target for a record of the zone.
observed(rec, z) ==
    Endpoint(rec.Name \o Dot \o z, rec.Type, <<rec.Content>>, rec.TTL)

RecordsFetch(fault) ==
    /\ pc = "recordsFetch"
    /\ Inject(fault)
    /\ LET r == ClientGetRecords(fault, zones[i])
       IN  /\ calls' = Append(calls, Called("getRecords", zones[i], r.err, r.recs))
           /\ IF r.err # NoError
              THEN /\ endpoints' = <<>>
                   /\ result' = PlainError("query")
                   /\ pc' = "logout"
                   /\ i' = i
              ELSE /\ endpoints' = endpoints \o
                          [k \in 1..Len(r.recs) |-> observed(r.recs[k], zones[i])]
                   /\ pc' = IF i < Len(zones) THEN "recordsFetch" ELSE "logout"
                   /\ i' = IF i < Len(zones) THEN i + 1 ELSE i
                   /\ result' = IF i < Len(zones) THEN result ELSE NoError
    /\ UNCHANGED <<mock, op, changes, zones, errs, recordsCache, j, zone, recIDs,
                   invocations, seeded, history, pure>>

\* ------------------------------------------------------------------------
\* The ChangeSets of the passes
\* ------------------------------------------------------------------------

\* ChangeSets hold at most this many endpoints and update pairs.
MaxChanges == 2

Endpoints ==
    {Endpoint(NameFA, "A", t, 60) :
        t \in {<<"1.1.1.1">>, <<"2.2.2.2">>, <<"1.1.1.1", "2.2.2.2">>}}
        \cup {Endpoint(NameFB, "A", <<"1.1.1.1">>, 60),
              Endpoint(NameNoZone, "A", <<"1.1.1.1">>, 60)}

\* An update pair: an endpoint and what it is to become.
UpdatePairs ==
    {p \in Endpoints \X Endpoints :
        /\ p[1] # p[2]
        /\ p[1].DNSName = p[2].DNSName
        /\ p[1].RecordType = p[2].RecordType}

Lists(S, n) == UNION {[1..m -> S] : m \in 0..n}

ChangeSets ==
    {Changes(d, c, [k \in 1..Len(u) |-> u[k][1]], [k \in 1..Len(u) |-> u[k][2]]) :
        <<d, c, u>> \in {t \in Lists(Endpoints, MaxChanges) \X Lists(Endpoints, MaxChanges)
                                    \X Lists(UpdatePairs, MaxChanges) :
                            Len(t[1]) + Len(t[2]) + Len(t[3]) <= MaxChanges}}

\* ------------------------------------------------------------------------
\* The provider against the fake registrar, any call of which may fail
\* ------------------------------------------------------------------------

Next ==
    \/ \E z \in Zones : CreateZone(z)
    \/ \E r \in SeedRequests : SeedRecord(r)
    \/ \E c \in ChangeSets, f \in SessionFaults : ApplyChanges(c, f)
    \/ \E f \in SessionFaults, o \in Orders(DOMAIN db) : GetZones(f, o)
    \/ \E f \in SessionFaults : Logout(f)
    \/ DeleteEndpoint
    \/ \E f \in ReadFaults : DeleteFetch(f)
    \/ \E f \in WriteFaults : DeleteRecord(f)
    \/ CreateEndpoint
    \/ \E f \in ReadFaults : CreateFetch(f)
    \/ \E f \in WriteFaults : CreateTarget(f)
    \/ UpdateEndpoint
    \/ \E f \in ReadFaults : UpdateFetch(f)
    \/ \E f \in WriteFaults : Fallback(f)
    \/ \E f \in WriteFaults : Paired(f)
    \/ \E f \in SessionFaults : Records(f)
    \/ \E f \in SessionFaults, o \in Orders(DOMAIN db) : RecordsGetZones(f, o)
    \/ \E f \in ReadFaults : RecordsFetch(f)

Spec == Init /\ [][Next]_vars

\* ------------------------------------------------------------------------
\* One endpoint to create, applied twice, no registrar call failing
\* ------------------------------------------------------------------------

CreateOnce ==
    {Changes(<<>>, <<ep>>, <<>>, <<>>) :
        ep \in {Endpoint(NameFA, "A", t, 60) : t \in TargetLists}
                  \cup {Endpoint(NameFB, "A", <<"1.1.1.1">>, 60),
                        Endpoint(NameNoZone, "A", <<"1.1.1.1">>, 60)}}

NextTwice ==
    \/ \E z \in Zones : CreateZone(z)
    \/ \E r \in SeedRequests : SeedRecord(r)
    \/ \E c \in CreateOnce : ApplyChanges(c, NoError)
    \/ Reapply(NoError)
    \/ \E o \in Orders(DOMAIN db) : GetZones(NoError, o)
    \/ Logout(NoError)
    \/ CreateEndpoint
    \/ CreateFetch(NoError)
    \/ CreateTarget(NoError)

SpecTwice == Init /\ [][NextTwice]_vars

\* ------------------------------------------------------------------------
\* A batch of endpoints to create, applied twice, no registrar call failing
\* ------------------------------------------------------------------------

\* One or more endpoints to create; two of them may have the same name.
CreateBatches ==
    {Changes(<<>>, c, <<>>, <<>>) : c \in Lists(Endpoints, MaxChanges) \ {<<>>}}

NextBatch ==
    \/ \E z \in Zones : CreateZone(z)
    \/ \E r \in SeedRequests : SeedRecord(r)
    \/ \E c \in CreateBatches : ApplyChanges(c, NoError)
    \/ Reapply(NoError)
    \/ \E o \in Orders(DOMAIN db) : GetZones(NoError, o)
    \/ Logout(NoError)
    \/ CreateEndpoint
    \/ CreateFetch(NoError)
    \/ CreateTarget(NoError)

SpecBatch == Init /\ [][NextBatch]_vars

\* ------------------------------------------------------------------------
\* One update pair, any call of which may fail
\* ------------------------------------------------------------------------

\* The old endpoint has the TTL 60 and the new one the TTL 300; the targets
\* of either are any list of one or two contents.
PairOnce ==
    {Changes(<<>>, <<>>, <<Endpoint(name, "A", old, 60)>>, <<Endpoint(name, "A", new, 300)>>) :
        name \in {NameFA, NameFB}, old \in TargetLists, new \in TargetLists}

NextPair ==
    \/ \E z \in Zones : CreateZone(z)
    \/ \E r \in SeedRequests : SeedRecord(r)
    \/ \E c \in PairOnce, f \in SessionFaults : ApplyChanges(c, f)
    \/ \E f \in SessionFaults, o \in Orders(DOMAIN db) : GetZones(f, o)
    \/ \E f \in SessionFaults : Logout(f)
    \/ UpdateEndpoint
    \/ \E f \in ReadFaults : UpdateFetch(f)
    \/ \E f \in WriteFaults : Fallback(f)
    \/ \E f \in WriteFaults : Paired(f)

SpecPair == Init /\ [][NextPair]_vars

\* ------------------------------------------------------------------------
\* The fake registrar called directly, as a test calls it, and then read
\* by Records
\* ------------------------------------------------------------------------

\* Direct calls on the fake registrar in one behaviour.
MaxDirect == 4

DirectRequests ==
    {NameserverRecordRequest(ZoneA, <<"f">>, "A", 60, "1.1.1.1"),
     NameserverRecordRequest(ZoneA, <<"f">>, "A", 300, "2.2.2.2"),
     NameserverRecordRequest(ZoneB, <<>>, "TXT", 60, "1.1.1.1")}

\* What updateRecord is called with: an identifier, which may be the
\* empty string, and a request.
DirectIDs == {"0", ""}

DirectUpdates ==
    {NameserverRecordRequest(ZoneA, <<"f">>, "A", 300, "2.2.2.2"),
     NameserverRecordRequest(ZoneB, <<>>, "TXT", 60, "1.1.1.1")}

Direct == pc = "init" /\ Len(calls) < MaxDirect

DirectCreateRecord(r) ==
    /\ Direct
    /\ LET res == MockCreateRecord(db, idToZone, r)
       IN  /\ db' = res.db
           /\ idToZone' = res.idToZone
           /\ calls' = Append(calls, Call("createRecord", r, res.err))
    /\ UNCHANGED <<pc, op, changes, locals, result, faults, invocations, seeded,
                   history, pure>>

DirectUpdateRecord(recID, r) ==
    /\ Direct
    /\ LET res == MockUpdateRecord(db, idToZone, recID, r)
       IN  /\ db' = res.db
           /\ idToZone' = res.idToZone
           /\ calls' = Append(calls, Call("updateRecord", [id |-> recID, r |-> r], res.err))
    /\ UNCHANGED <<pc, op, changes, locals, result, faults, invocations, seeded,
                   history, pure>>

DirectDeleteRecord(recID) ==
    /\ Direct
    /\ LET res == MockDeleteRecord(db, idToZone, recID)
       IN  /\ db' = res.db
           /\ idToZone' = res.idToZone
           /\ calls' = Append(calls, Call("deleteRecord", recID, res.err))
    /\ UNCHANGED <<pc, op, changes, locals, result, faults, invocations, seeded,
                   history, pure>>

NextRegistrar ==
    \/ \E z \in Zones : Len(calls) = 0 /\ CreateZone(z)
    \/ \E r \in DirectRequests : DirectCreateRecord(r)
    \/ \E recID \in DirectIDs, r \in DirectUpdates : DirectUpdateRecord(recID, r)
    \/ \E recID \in DirectIDs : DirectDeleteRecord(recID)
    \/ \E f \in SessionFaults : Records(f)
    \/ \E f \in ReadFaults, o \in Orders(DOMAIN db) : RecordsGetZones(f, o)
    \/ \E f \in ReadFaults : RecordsFetch(f)
    \/ Logout(NoError)

SpecRegistrar == Init /\ [][NextRegistrar]_vars

\* ------------------------------------------------------------------------
\* The name resolver and the record matcher called on their own
\* ------------------------------------------------------------------------

\* The longest DNS name, and the longest zone name, of the names made of
\* the letters a and b, the dot and the hyphen.
MaxNameLen == 5

MaxZoneLen == 3

\* Zones in a zone list.
MaxZones == 2

Letters == {"a", "b"}

Alphabet == Letters \cup {".", "-"}

\* The names of a length that begin and end with a letter.
NamesOfLen(n) ==
    {s \in [1..n -> Alphabet] : s[1] \in Letters /\ s[n] \in Letters}

DNSNames == UNION {NamesOfLen(n) : n \in 1..MaxNameLen}

\* Zone names: the names up to MaxZoneLen that end with a.
ZoneNames == {s \in UNION {NamesOfLen(n) : n \in 1..MaxZoneLen} : s[Len(s)] = "a"}

ZoneLists == UNION {[1..n -> ZoneNames] : n \in 0..MaxZones}

\* The names of the tests.
\* "bar.org"
BarOrg ==
    <<"b", "a", "r", ".", "o", "r", "g">>

\* "baz.org"
BazOrg ==
    <<"b", "a", "z", ".", "o", "r", "g">>

\* "subdomain.bar.org"
SubdomainBarOrg ==
    <<"s", "u", "b", "d", "o", "m", "a", "i", "n", ".", "b", "a", "r",
    ".", "o", "r", "g">>

\* "foo.bar.org"
FooBarOrg ==
    <<"f", "o", "o", ".", "b", "a", "r", ".", "o", "r", "g">>

\* "foo.foo.org"
FooFooOrg ==
    <<"f", "o", "o", ".", "f", "o", "o", ".", "o", "r", "g">>

\* "foo.subdomain.bar.org"
FooSubdomainBarOrg ==
    <<"f", "o", "o", ".", "s", "u", "b", "d", "o", "m", "a", "i", "n",
    ".", "b", "a", "r", ".", "o", "r", "g">>

\* "foo.otherdomain.bar.org"
FooOtherdomainBarOrg ==
    <<"f", "o", "o", ".", "o", "t", "h", "e", "r", "d", "o", "m", "a",
    "i", "n", ".", "b", "a", "r", ".", "o", "r", "g">>

\* "example.com"
ExampleCom ==
    <<"e", "x", "a", "m", "p", "l", "e", ".", "c", "o", "m">>

\* "beersandbusiness.com"
BeersCom ==
    <<"b", "e", "e", "r", "s", "a", "n", "d", "b", "u", "s", "i", "n",
    "e", "s", "s", ".", "c", "o", "m">>

\* "ratemybravas.com"
BravasCom ==
    <<"r", "a", "t", "e", "m", "y", "b", "r", "a", "v", "a", "s", ".",
    "c", "o", "m">>

\* "foo.example.com"
FooExampleCom ==
    <<"f", "o", "o", ".", "e", "x", "a", "m", "p", "l", "e", ".", "c",
    "o", "m">>

\* "foo.unknown.org"
FooUnknownOrg ==
    <<"f", "o", "o", ".", "u", "n", "k", "n", "o", "w", "n", ".", "o",
    "r", "g">>

\* "_edns.a-example.com"
EdnsAExampleCom ==
    <<"_", "e", "d", "n", "s", ".", "a", "-", "e", "x", "a", "m", "p",
    "l", "e", ".", "c", "o", "m">>

\* "_edns.a-beersandbusiness.com"
EdnsABeersCom ==
    <<"_", "e", "d", "n", "s", ".", "a", "-", "b", "e", "e", "r", "s",
    "a", "n", "d", "b", "u", "s", "i", "n", "e", "s", "s", ".", "c", "o",
    "m">>

\* "_edns.a-beersandbusiness.com.beersandbusiness.com"
EdnsABeersComBeersCom ==
    <<"_", "e", "d", "n", "s", ".", "a", "-", "b", "e", "e", "r", "s",
    "a", "n", "d", "b", "u", "s", "i", "n", "e", "s", "s", ".", "c", "o",
    "m", ".", "b", "e", "e", "r", "s", "a", "n", "d", "b", "u", "s", "i",
    "n", "e", "s", "s", ".", "c", "o", "m">>

\* The zone lists of testEndpointZoneName, in every order getZones may give,
\* and of testGetZoneDotBoundary.
OrgZones == Orders({BarOrg, BazOrg, SubdomainBarOrg})

ComZones == <<BeersCom, BravasCom, ExampleCom>>

GetZoneInput(zs, name) == [fn |-> "getZone", zones |-> zs, dnsName |-> name]

GetZoneInputs ==
    {GetZoneInput(zs, name) : zs \in ZoneLists, name \in DNSNames}
        \cup {GetZoneInput(zs, name) :
                 zs \in OrgZones,
                 name \in {FooBarOrg, FooFooOrg, BazOrg, FooSubdomainBarOrg,
                           FooOtherdomainBarOrg}}
        \cup {GetZoneInput(ComZones, name) :
                 name \in {FooExampleCom, ExampleCom, EdnsABeersCom,
                           EdnsABeersComBeersCom, FooUnknownOrg, EdnsAExampleCom}}

\* "foo"
Foo ==
    <<"f", "o", "o">>

\* "foo.otherdomain"
FooOtherdomain ==
    <<"f", "o", "o", ".", "o", "t", "h", "e", "r", "d", "o", "m", "a",
    "i", "n">>

\* "antimatter-studios.com"
AntimatterCom ==
    <<"a", "n", "t", "i", "m", "a", "t", "t", "e", "r", "-", "s", "t",
    "u", "d", "i", "o", "s", ".", "c", "o", "m">>

\* "_edns.git.antimatter-studios.com"
EdnsGitAntimatterCom ==
    <<"_", "e", "d", "n", "s", ".", "g", "i", "t", ".", "a", "n", "t",
    "i", "m", "a", "t", "t", "e", "r", "-", "s", "t", "u", "d", "i", "o",
    "s", ".", "c", "o", "m">>

\* "_edns.git"
EdnsGit ==
    <<"_", "e", "d", "n", "s", ".", "g", "i", "t">>

\* "_edns.a-example.com.example.com"
EdnsAExampleComExampleCom ==
    <<"_", "e", "d", "n", "s", ".", "a", "-", "e", "x", "a", "m", "p",
    "l", "e", ".", "c", "o", "m", ".", "e", "x", "a", "m", "p", "l", "e",
    ".", "c", "o", "m">>

\* "_edns.a-example"
EdnsAExample ==
    <<"_", "e", "d", "n", "s", ".", "a", "-", "e", "x", "a", "m", "p",
    "l", "e">>

\* Names and zones made of the labels a and b.
MaxLabels == 5

MaxZoneLabels == 2

LabelNames(n) == {Join(l) : l \in UNION {[1..m -> {<<"a">>, <<"b">>}] : m \in 1..n}}

ExtractRecordNameInput(name, z) == [fn |-> "extractRecordName", dnsName |-> name, zone |-> z]

ExtractRecordNameInputs ==
    {ExtractRecordNameInput(name, z) :
        name \in DNSNames, z \in UNION {NamesOfLen(n) : n \in 1..MaxZoneLen}}
        \cup {ExtractRecordNameInput(name, z) :
                 name \in LabelNames(MaxLabels), z \in LabelNames(MaxZoneLabels)}
        \cup {ExtractRecordNameInput(FooExampleCom, ExampleCom),
              ExtractRecordNameInput(ExampleCom, ExampleCom),
              ExtractRecordNameInput(FooBarOrg, BarOrg),
              ExtractRecordNameInput(FooOtherdomainBarOrg, BarOrg),
              ExtractRecordNameInput(EdnsGitAntimatterCom, AntimatterCom),
              ExtractRecordNameInput(EdnsAExampleComExampleCom, ExampleCom),
              ExtractRecordNameInput(EdnsABeersComBeersCom, BeersCom)}

\* "foo.baz.org"
FooBazOrg == Foo \o Dot \o BazOrg

\* Records in a snapshot given to getRecIDs.
MaxRecords == 3

\* Snapshots of a zone: the records have the name f or the empty name of
\* the apex, and the identifiers the registrar gives within a zone.
Snapshots ==
    {[k \in 1..Len(rs) |-> NameserverRecord(ToString(k - 1), rs[k])] :
        rs \in UNION {[1..n -> {NameserverRecordRequest(ZoneA, name, type, 60, content) :
                                  name \in {<<"f">>, <<>>},
                                  type \in {"A", "TXT"},
                                  content \in Contents}] : n \in 0..MaxRecords}}

\* The records of testGetRecIDs.
TestRecords ==
    <<[ID |-> "10", Name |-> Foo, Type |-> "TXT", Content |-> "heritage", TTL |-> 0],
      [ID |-> "11", Name |-> Foo, Type |-> "A", Content |-> "5.5.5.5", TTL |-> 0],
      [ID |-> "12", Name |-> <<>>, Type |-> "A", Content |-> "5.5.5.5", TTL |-> 0],
      [ID |-> "13", Name |-> <<>>, Type |-> "A", Content |-> "5.5.5.6", TTL |-> 0]>>

GetRecIDsInput(z, records, ep) ==
    [fn |-> "getRecIDs", zone |-> z, records |-> records, ep |-> ep]

GetRecIDsInputs ==
    {GetRecIDsInput(ZoneA, records, Endpoint(name, type, targets, 60)) :
        records \in Snapshots,
        name \in {NameFA, ZoneA},
        type \in {"A", "TXT"},
        targets \in TargetLists}
        \cup {GetRecIDsInput(ExampleCom, TestRecords,
                             Endpoint(FooExampleCom, "TXT", <<"heritage">>, 0)),
              GetRecIDsInput(BazOrg, TestRecords,
                             Endpoint(FooBazOrg, "A", <<"5.5.5.5">>, 0)),
              GetRecIDsInput(BazOrg, TestRecords,
                             Endpoint(BazOrg, "A", <<"5.5.5.5", "5.5.5.6">>, 0))}

\* "foo.subdomain"
FooSubdomain ==
    <<"f", "o", "o", ".", "s", "u", "b", "d", "o", "m", "a", "i", "n">>

\* A live record of a zone of the zone list, as getRecords returns it, to be
\* reported by Records and mapped back by getZone and extractRecordName.
ObservedInput(zs, z, name) ==
    [fn |-> "observed", zones |-> zs, zone |-> z,
     rec |-> NameserverRecord("0", NameserverRecordRequest(z, name, "A", 60, "1.1.1.1"))]

\* The zone alone, or with one more zone before or after it; the record
\* names are the empty name of the apex and the names up to MaxZoneLen.
ObservedInputs ==
    {ObservedInput(zs, z, name) :
        zs \in {<<z>> : z \in ZoneNames}
                 \cup {<<z, y>> : z \in ZoneNames, y \in ZoneNames},
        z \in ZoneNames,
        name \in {<<>>} \cup UNION {NamesOfLen(n) : n \in 1..MaxZoneLen}}
        \cup {ObservedInput(zs, BarOrg, name) :
                 zs \in OrgZones, name \in {Foo, FooOtherdomain, FooSubdomain, <<>>}}
        \cup {ObservedInput(ComZones, ExampleCom, name) :
                 name \in {Foo, EdnsAExampleCom, <<>>}}

Inputs ==
    GetZoneInputs \cup ExtractRecordNameInputs \cup GetRecIDsInputs
        \cup {x \in ObservedInputs : x.zone \in {x.zones[k] : k \in DOMAIN x.zones}}

InitPure ==
    /\ Constructed
    /\ input \in Inputs
    /\ output = Nothing

\* getZone is called with the zone list and the DNS name of an endpoint.
GetZoneCall ==
    /\ input.fn = "getZone"
    /\ output = Nothing
    /\ output' = [fn |-> "getZone", ret |-> getZone(input.zones, input.dnsName)]
    /\ UNCHANGED <<mock, pc, op, changes, locals, result, calls, faults, invocations,
                   seeded, history, input>>

\* extractRecordName is called with a DNS name and a zone.
ExtractRecordNameCall ==
    /\ input.fn = "extractRecordName"
    /\ output = Nothing
    /\ output' = [fn |-> "extractRecordName",
                  ret |-> extractRecordName(input.dnsName, input.zone)]
    /\ UNCHANGED <<mock, pc, op, changes, locals, result, calls, faults, invocations,
                   seeded, history, input>>

\* getRecIDs is called with a zone, its snapshot and an endpoint.
GetRecIDsCall ==
    /\ input.fn = "getRecIDs"
    /\ output = Nothing
    /\ output' = [fn |-> "getRecIDs",
                  ret |-> getRecIDs(input.zone, input.records, input.ep)]
    /\ UNCHANGED <<mock, pc, op, changes, locals, result, calls, faults, invocations,
                   seeded, history, input>>

\* Records reports the record of the zone; getZone is called with the zone
\* list and the reported name, extractRecordName with the reported name and
\* the zone of the record.
ObservedCall ==
    /\ input.fn = "observed"
    /\ output = Nothing
    /\ LET ep == observed(input.rec, input.zone)
       IN  output' = [fn |-> "observed",
                      ep |-> ep,
                      ret |-> getZone(input.zones, ep.DNSName),
                      name |-> extractRecordName(ep.DNSName, input.zone)]
    /\ UNCHANGED <<mock, pc, op, changes, locals, result, calls, faults, invocations,
                   seeded, history, input>>

NextPure ==
    \/ GetZoneCall
    \/ ExtractRecordNameCall
    \/ GetRecIDsCall
    \/ ObservedCall

SpecPure == InitPure /\ [][NextPure]_vars

\* ------------------------------------------------------------------------
\* Properties
\* ------------------------------------------------------------------------

\* The invocation has logged in.
LoggedIn == Len(calls) > 0 /\ calls[1].op = "login" /\ calls[1].err = NoError

\* The invocation has logged in and has its zone list.
Listed == LoggedIn /\ Len(calls) > 1 /\ calls[2].op = "getZones" /\ calls[2].err = NoError

\* The pass is over: only the logout is left, or nothing.
PassOver == op = "ApplyChanges" /\ pc \in {"logout", "done"}

RegistrarUnchanged == db = start.db /\ idToZone = start.idToZone

SomeRecord == \E z \in DOMAIN db : Len(db[z]) > 0

\* C9: a ChangeSet without deletes, creates and update pairs makes
\* ApplyChanges return success without any registrar call (no login either)
\* and leave the registrar as it was.
NoOpShortCircuit ==
    (/\ op = "ApplyChanges"
     /\ Len(changes.Delete) = 0
     /\ Len(changes.Create) = 0
     /\ Len(changes.UpdateOld) = 0
     /\ Len(changes.UpdateNew) = 0)
        => /\ pc = "done"
           /\ calls = <<>>
           /\ result = NoError
           /\ RegistrarUnchanged

NoOpWitness ==
    op = "ApplyChanges" /\ changes = NoChanges /\ pc = "done" /\ SomeRecord

\* C10: when login fails the invocation (ApplyChanges or Records) returns
\* that error at once: login is its only registrar call, there is no logout,
\* nothing is returned besides the error and the registrar is unchanged.
LoginFailureIsFatal ==
    (Len(calls) > 0 /\ calls[1].err # NoError)
        => /\ Len(calls) = 1
           /\ calls[1].op = "login"
           /\ pc = "done"
           /\ result = calls[1].err
           /\ endpoints = <<>>
           /\ RegistrarUnchanged

LoginFailureWitness ==
    /\ op = "ApplyChanges"
    /\ Len(changes.Delete) > 0
    /\ Len(changes.Create) > 0
    /\ pc = "done"
    /\ calls = <<Login(TransportError)>>
    /\ SomeRecord

\* What the invocation returns, from what happened before the logout.
ResultBeforeLogout ==
    IF calls[2].err # NoError THEN calls[2].err
    ELSE IF op = "ApplyChanges" THEN Aggregate(errs)
    ELSE IF \E k \in 1..Len(calls) : calls[k].op = "getRecords" /\ calls[k].err # NoError
    THEN PlainError("query")
    ELSE NoError

\* C8: login is the first call of an invocation and is made once; after a
\* successful login every other call lies before the logout, the logout is
\* made exactly once on every way out (getZones failed, getRecords failed,
\* errors recorded, success), and a failing logout leaves the result alone.
SessionDiscipline ==
    /\ \A k \in 1..Len(calls) : (calls[k].op = "login") <=> (k = 1)
    /\ LoggedIn =>
        /\ \A k \in 1..Len(calls) :
               calls[k].op = "logout" => (k = Len(calls) /\ pc = "done")
        /\ pc = "done" =>
               /\ calls[Len(calls)].op = "logout"
               /\ result = ResultBeforeLogout

\* A pass with recorded errors whose logout fails too.
SessionWitness ==
    /\ op = "ApplyChanges"
    /\ pc = "done"
    /\ LoggedIn
    /\ calls[Len(calls)].op = "logout"
    /\ calls[Len(calls)].err # NoError
    /\ Len(errs) > 0
    /\ \E k \in 1..Len(calls) : calls[k].op = "createRecord"

\* The zone getZone gives the endpoint with the zone list of the pass.
ZoneOf(ep) == getZone(zones, ep.DNSName)

\* The successful getRecords of a phase for a zone that an endpoint of the
\* phase at index idx can use: made for it or for an endpoint before it.
Fetches(fetch, z, idx) ==
    {k \in 1..Len(calls) :
        /\ calls[k].op = "getRecords"
        /\ calls[k].pc = fetch
        /\ calls[k].arg = z
        /\ calls[k].err = NoError
        /\ calls[k].ep <= idx}

\* The snapshot of the zone that the endpoint at index idx is decided on.
Snapshot(fetch, z, idx) == calls[CHOOSE k \in Fetches(fetch, z, idx) : TRUE].ret

\* The getRecords made for the endpoint at index idx failed.
FetchFailed(fetch, idx) ==
    \E k \in 1..Len(calls) :
        /\ calls[k].op = "getRecords"
        /\ calls[k].pc = fetch
        /\ calls[k].ep = idx
        /\ calls[k].err # NoError

\* The failures a pass records, counted from what happened: endpoints
\* without a zone, failed registrar calls other than a create that met an
\* existing object, and endpoints to delete whose targets were not all
\* matched.
ZoneFailures ==
    Cardinality({idx \in 1..Len(changes.Delete) : ZoneOf(changes.Delete[idx]).err # NoError})
    + Cardinality({idx \in 1..Len(changes.Create) : ZoneOf(changes.Create[idx]).err # NoError})
    + Cardinality({idx \in 1..Len(changes.UpdateOld) :
                      ZoneOf(changes.UpdateOld[idx]).err # NoError})

CallFailures ==
    Cardinality({k \in 1..Len(calls) :
        /\ calls[k].op \in {"getRecords", "createRecord", "updateRecord", "deleteRecord"}
        /\ calls[k].err # NoError
        /\ ~(calls[k].op = "createRecord" /\ calls[k].err = ObjectExists)})

MappingFailures ==
    Cardinality({idx \in 1..Len(changes.Delete) :
        LET ep == changes.Delete[idx]
            z == ZoneOf(ep)
        IN  /\ z.err = NoError
            /\ Fetches("deleteFetch", z.zone, idx) # {}
            /\ getRecIDs(z.zone, Snapshot("deleteFetch", z.zone, idx), ep).err # NoError})

RecordedFailures == ZoneFailures + CallFailures + MappingFailures

\* C5: a pass that has logged in and listed the zones returns the aggregate
\* failure exactly when a failure was recorded in one of its phases, the
\* count it states is the number of recorded failures, and it returns
\* success when none was recorded.
ErrorAggregation ==
    (PassOver /\ Listed)
        => result = IF RecordedFailures > 0
                    THEN [kind |-> "plain", what |-> "aggregate",
                          count |-> RecordedFailures]
                    ELSE NoError

\* A pass with a create that met an existing object, which is not counted,
\* and an endpoint to delete that was not matched, which is.
ErrorAggregationWitness ==
    /\ PassOver
    /\ Listed
    /\ result = [kind |-> "plain", what |-> "aggregate", count |-> 1]
    /\ MappingFailures = 1
    /\ \E k \in 1..Len(calls) : calls[k].op = "createRecord" /\ calls[k].err = ObjectExists

\* The log entries of the calls made at a place of the pass for the target
\* or identifier at index k of the endpoint at index idx.
At(place, idx, k) ==
    {e \in 1..Len(calls) : calls[e].pc = place /\ calls[e].ep = idx /\ calls[e].tgt = k}

\* The operation for that target or identifier was attempted, once.
Attempted(place, idx, k, name) ==
    \E e \in At(place, idx, k) : At(place, idx, k) = {e} /\ calls[e].op = name

\* The endpoint at index idx of a phase was taken up: its zone was looked
\* for, and when there is one its records were there or were asked for.
TakenUp(fetch, ep, idx) ==
    ZoneOf(ep).err = NoError =>
        (Fetches(fetch, ZoneOf(ep).zone, idx) # {} \/ FetchFailed(fetch, idx))

\* Every identifier matched for the endpoint to delete had its deleteRecord.
DeleteAttempted(idx) ==
    LET ep == changes.Delete[idx]
        z == ZoneOf(ep).zone
        m == getRecIDs(z, Snapshot("deleteFetch", z, idx), ep)
    IN  \A k \in 1..Len(m.recIDs) :
            /\ Attempted("deleteRecord", idx, k, "deleteRecord")
            /\ \A e \in At("deleteRecord", idx, k) : calls[e].arg = m.recIDs[k]

\* Every target of the endpoint to create that the snapshot does not hold
\* had its updateRecord or createRecord.
CreateAttempted(idx) ==
    LET ep == changes.Create[idx]
        z == ZoneOf(ep).zone
        existing == findRecordsByNameAndType(z, Snapshot("createFetch", z, idx),
                                             ep.DNSName, ep.RecordType)
    IN  \A k \in 1..Len(ep.Targets) :
            LET decision == createDecision(existing, ep, ep.Targets[k])
            IN  /\ decision = "skip" => At("createTarget", idx, k) = {}
                /\ decision = "update" => Attempted("createTarget", idx, k, "updateRecord")
                /\ decision = "create" => Attempted("createTarget", idx, k, "createRecord")

\* Every index of the update pair had its call: on the fallback path a
\* createRecord for each new target the snapshot does not hold, on the
\* paired path the update, create or delete of the index.
UpdateAttempted(idx) ==
    LET oldEp == changes.UpdateOld[idx]
        newEp == changes.UpdateNew[idx]
        z == ZoneOf(oldEp).zone
        snapshot == Snapshot("updateFetch", z, idx)
        m == getRecIDs(z, snapshot, oldEp)
        existing == findRecordsByNameAndType(z, snapshot, newEp.DNSName, newEp.RecordType)
    IN  IF m.err # NoError
        THEN \A k \in 1..Len(newEp.Targets) :
                IF findExactRecord(existing, newEp.Targets[k]) # ""
                THEN At("fallback", idx, k) = {}
                ELSE Attempted("fallback", idx, k, "createRecord")
        ELSE \A k \in 1..Max(Max(Len(oldEp.Targets), Len(newEp.Targets)), Len(m.recIDs)) :
                Attempted("paired", idx, k,
                          IF k > Len(newEp.Targets) THEN "deleteRecord"
                          ELSE IF k > Len(oldEp.Targets) THEN "createRecord"
                          ELSE "updateRecord")

\* C6: whatever failed in a pass (a zone not found, a failed getRecords, an
\* endpoint not matched, a failed create, update or delete), every endpoint
\* of the three lists was taken up, and every target or identifier of an
\* endpoint whose records were there had its registrar operation attempted.
FailureIsolation ==
    (PassOver /\ Listed) =>
        /\ \A idx \in 1..Len(changes.Delete) :
              /\ TakenUp("deleteFetch", changes.Delete[idx], idx)
              /\ Fetches("deleteFetch", ZoneOf(changes.Delete[idx]).zone, idx) # {}
                    => DeleteAttempted(idx)
        /\ \A idx \in 1..Len(changes.Create) :
              /\ TakenUp("createFetch", changes.Create[idx], idx)
              /\ Fetches("createFetch", ZoneOf(changes.Create[idx]).zone, idx) # {}
                    => CreateAttempted(idx)
        /\ \A idx \in 1..Len(changes.UpdateOld) :
              /\ TakenUp("updateFetch", changes.UpdateOld[idx], idx)
              /\ Fetches("updateFetch", ZoneOf(changes.UpdateOld[idx]).zone, idx) # {}
                    => UpdateAttempted(idx)

\* The create of the first target of an endpoint failed; the create of its
\* second target and the create of the next endpoint were made all the same.
FailureIsolationWitness ==
    /\ PassOver
    /\ Listed
    /\ Len(changes.Create) = 2
    /\ \E e \in At("createTarget", 1, 1) :
          calls[e].op = "createRecord" /\ calls[e].err = TransportError
    /\ \E e \in At("createTarget", 1, 2) :
          calls[e].op = "createRecord" /\ calls[e].err = NoError
    /\ \E e \in At("createTarget", 2, 1) :
          calls[e].op = "createRecord" /\ calls[e].err = NoError

\* The live records of a zone of a registrar: the positions in its list of
\* the records not deleted.
Live(d, z) == {k \in 1..Len(d[z]) : d[z][k].ID # ""}

\* No two live records of a zone share name, type and content.
Unique(d) ==
    \A z \in DOMAIN d : \A a, b \in Live(d, z) :
        (/\ d[z][a].Name = d[z][b].Name
         /\ d[z][a].Type = d[z][b].Type
         /\ d[z][a].Content = d[z][b].Content) => a = b

\* C7: when no two live records of a zone share name, type and content
\* before a pass, no zone holds two such records during or after it,
\* whatever the ChangeSet and whichever registrar calls fail.
RecordUniqueness ==
    (op = "ApplyChanges" /\ Unique(start.db)) => Unique(db)

\* The update pair [1.1.1.1] -> [2.2.2.2] for f.a.o, applied without a
\* failure to a zone that holds both records, leaves two records 2.2.2.2.
DuplicateByUpdate ==
    /\ op = "ApplyChanges"
    /\ pc = "done"
    /\ result = NoError
    /\ Unique(start.db)
    /\ changes = Changes(<<>>, <<>>, <<Endpoint(NameFA, "A", <<"1.1.1.1">>, 60)>>,
                         <<Endpoint(NameFA, "A", <<"2.2.2.2">>, 60)>>)
    /\ \A e \in 1..Len(calls) : calls[e].err = NoError
    /\ ~Unique(db)

Range(f) == {f[k] : k \in DOMAIN f}

\* The record has the record name, the type and a target of the endpoint.
Matches(rec, ep, z) ==
    /\ rec.Name = extractRecordName(ep.DNSName, z)
    /\ rec.Type = ep.RecordType
    /\ rec.Content \in Range(ep.Targets)

\* The records getRecords returns for the zone, as a set.
Returned(d, z) == Range(MockGetRecords(d, z).recs)

NoCallFailed == \A e \in 1..Len(calls) : calls[e].err = NoError

\* C4: after a pass for a ChangeSet that is one endpoint to delete, every
\* target of which matched a live record of its zone when the pass began,
\* and in which no registrar call failed: the pass returns success, a
\* getRecords of the zone returns none of the records that matched, and it
\* still returns the other records of the zone.
DeleteThroughPass ==
    (/\ op = "ApplyChanges"
     /\ pc = "done"
     /\ Len(changes.Delete) = 1
     /\ Len(changes.Create) = 0
     /\ Len(changes.UpdateOld) = 0
     /\ NoCallFailed
     /\ ZoneOf(changes.Delete[1]).err = NoError
     /\ \A t \in Range(changes.Delete[1].Targets) :
            \E rec \in Returned(start.db, ZoneOf(changes.Delete[1]).zone) :
                /\ Matches(rec, changes.Delete[1], ZoneOf(changes.Delete[1]).zone)
                /\ rec.Content = t)
        => LET ep == changes.Delete[1]
               z == ZoneOf(ep).zone
           IN  /\ result = NoError
               /\ \A rec \in Returned(start.db, z) :
                      IF Matches(rec, ep, z)
                      THEN rec \notin Returned(db, z)
                      ELSE rec \in Returned(db, z)

\* a.o and b.o hold one record f each, both with the identifier "0"; the
\* pass that deletes f.a.o succeeds, f.a.o is still there and f.b.o is gone.
DeleteInOtherZone ==
    /\ op = "ApplyChanges"
    /\ pc = "done"
    /\ changes = Changes(<<Endpoint(NameFA, "A", <<"1.1.1.1">>, 60)>>, <<>>, <<>>, <<>>)
    /\ NoCallFailed
    /\ result = NoError
    /\ Unique(start.db)
    /\ Returned(start.db, ZoneA) = {NameserverRecord("0",
            NameserverRecordRequest(ZoneA, <<"f">>, "A", 60, "1.1.1.1"))}
    /\ Returned(db, ZoneA) = Returned(start.db, ZoneA)
    /\ ZoneB \in DOMAIN db
    /\ Returned(start.db, ZoneB) # {}
    /\ Returned(db, ZoneB) = {}

\* The snapshot holds a record with the record name and type of the
\* endpoint and the content.
Held(snapshot, ep, z, content) ==
    \E rec \in Range(snapshot) :
        /\ rec.Name = extractRecordName(ep.DNSName, z)
        /\ rec.Type = ep.RecordType
        /\ rec.Content = content

\* The log entries of the calls made for the update pair at index idx.
PairCalls(idx) ==
    {e \in 1..Len(calls) : calls[e].pc \in {"fallback", "paired"} /\ calls[e].ep = idx}

\* C3: for an update pair some old target of which has no record in the
\* snapshot of the Update phase: no updateRecord and no deleteRecord is made
\* for the pair, createRecord is made for exactly the targets of the new
\* endpoint that the snapshot does not hold, and when these calls succeed
\* no error is recorded for the pair and every target of the new endpoint
\* has a live record after the pass.
UpdateFallback ==
    (PassOver /\ Listed) =>
        \A idx \in 1..Len(changes.UpdateOld) :
            LET oldEp == changes.UpdateOld[idx]
                newEp == changes.UpdateNew[idx]
                z == ZoneOf(oldEp).zone
                snapshot == Snapshot("updateFetch", z, idx)
                creates == {e \in PairCalls(idx) : calls[e].op = "createRecord"}
            IN  (/\ ZoneOf(oldEp).err = NoError
                 /\ Fetches("updateFetch", z, idx) # {}
                 /\ \E t \in Range(oldEp.Targets) : ~Held(snapshot, oldEp, z, t))
                    => /\ \A e \in PairCalls(idx) : calls[e].op = "createRecord"
                       /\ {calls[e].arg.Content : e \in creates}
                            = {t \in Range(newEp.Targets) : ~Held(snapshot, newEp, z, t)}
                       /\ (\A e \in creates : calls[e].err = NoError)
                            => /\ \A e \in PairCalls(idx) : calls[e].err = NoError
                               /\ \A t \in Range(newEp.Targets) :
                                      \E rec \in Returned(db, z) :
                                          /\ Matches(rec, newEp, z)
                                          /\ rec.Content = t

\* a.o holds f = 1.1.1.1; the pairs [1.1.1.1] -> [2.2.2.2] and
\* [2.2.2.2] -> [1.1.1.1] for f.a.o are applied without a failure.  The
\* second pair takes the fallback path on the snapshot taken before the
\* first, finds 1.1.1.1 in it, and f.a.o has no record 1.1.1.1 afterwards.
StaleFallback ==
    /\ op = "ApplyChanges"
    /\ pc = "done"
    /\ NoCallFailed
    /\ result = NoError
    /\ changes = Changes(<<>>, <<>>,
                         <<Endpoint(NameFA, "A", <<"1.1.1.1">>, 60),
                           Endpoint(NameFA, "A", <<"2.2.2.2">>, 60)>>,
                         <<Endpoint(NameFA, "A", <<"2.2.2.2">>, 60),
                           Endpoint(NameFA, "A", <<"1.1.1.1">>, 60)>>)
    /\ Returned(start.db, ZoneA) = {NameserverRecord("0",
            NameserverRecordRequest(ZoneA, <<"f">>, "A", 60, "1.1.1.1"))}
    /\ PairCalls(2) = {}
    /\ Returned(db, ZoneA) = {NameserverRecord("0",
            NameserverRecordRequest(ZoneA, <<"f">>, "A", 60, "2.2.2.2"))}

\* The records of the snapshot of the Create phase with the record name and
\* type of the endpoint to create at index idx.
Existing(idx) ==
    LET ep == changes.Create[idx]
        z == ZoneOf(ep).zone
    IN  findRecordsByNameAndType(z, Snapshot("createFetch", z, idx), ep.DNSName, ep.RecordType)

\* The endpoint to create at index idx has one target, and the snapshot one
\* record with its record name and type, with another content.
UpsertCase(idx) ==
    /\ Len(changes.Create[idx].Targets) = 1
    /\ ZoneOf(changes.Create[idx]).err = NoError
    /\ Fetches("createFetch", ZoneOf(changes.Create[idx]).zone, idx) # {}
    /\ Len(Existing(idx)) = 1
    /\ Existing(idx)[1].Content # changes.Create[idx].Targets[1]

\* The calls made for the endpoint to create at index idx are one
\* updateRecord, on the identifier of the record of the snapshot.
OneUpdate(idx) ==
    \E e \in 1..Len(calls) :
        /\ {c \in 1..Len(calls) : calls[c].pc = "createTarget" /\ calls[c].ep = idx} = {e}
        /\ calls[e].op = "updateRecord"
        /\ calls[e].arg.id = Existing(idx)[1].ID

\* The live records of the zone with the name and the type.
Named(d, z, name, type) ==
    {k \in Live(d, z) : d[z][k].Name = name /\ d[z][k].Type = type}

Upserted ==
    /\ pc = "createTarget"
    /\ Len(calls') = Len(calls) + 1
    /\ calls'[Len(calls')].op = "updateRecord"
    /\ calls'[Len(calls')].err = NoError

\* The updateRecord changed the record in place: the record with the
\* identifier was live and is live, it has the name, the type and the
\* content asked for, and the zone has as many live records with that name
\* and type as before.
InPlace ==
    LET id == calls'[Len(calls')].arg.id
        rec == calls'[Len(calls')].arg.rec
        z == rec.Domain
    IN  /\ \E k \in Live(db, z) : db[z][k].ID = id
        /\ \E k \in Live(db', z) :
              /\ db'[z][k].ID = id
              /\ db'[z][k].Name = rec.Name
              /\ db'[z][k].Type = rec.Type
              /\ db'[z][k].Content = rec.Content
        /\ Cardinality(Named(db', z, rec.Name, rec.Type))
              = Cardinality(Named(db, z, rec.Name, rec.Type))

AppliedTwice ==
    /\ op = "ApplyChanges"
    /\ pc = "done"
    /\ prev.op = "ApplyChanges"
    /\ prev.changes = changes
    /\ Len(changes.Delete) = 0
    /\ Len(changes.Create) = 1
    /\ Len(changes.UpdateOld) = 0
    /\ \A e \in 1..Len(prev.calls) : prev.calls[e].err = NoError
    /\ NoCallFailed
    /\ ZoneOf(changes.Create[1]).err = NoError
    /\ Unique(prev.start.db)

\* C1: both passes return success, the second pass makes no createRecord,
\* updateRecord or deleteRecord, and afterwards every target of the endpoint
\* has exactly one live record with the record name, the type and that
\* content.
CreateIdempotence ==
    AppliedTwice =>
        LET ep == changes.Create[1]
            z == ZoneOf(ep).zone
        IN  /\ prev.result = NoError
            /\ result = NoError
            /\ \A e \in 1..Len(calls) :
                  calls[e].op \notin {"createRecord", "updateRecord", "deleteRecord"}
            /\ \A t \in Range(ep.Targets) :
                  Cardinality({k \in Named(db, z, extractRecordName(ep.DNSName, z),
                                           ep.RecordType) : db[z][k].Content = t}) = 1

\* f.a.o with the targets [1.1.1.1, 1.1.1.1] was created in the empty zone
\* a.o and applied again: the zone has two live records f = 1.1.1.1.
CreatedTwice ==
    /\ AppliedTwice
    /\ changes.Create[1] = Endpoint(NameFA, "A", <<"1.1.1.1", "1.1.1.1">>, 60)
    /\ Live(prev.start.db, ZoneA) = {}
    /\ Cardinality(Live(db, ZoneA)) = 2
    /\ \A k \in Live(db, ZoneA) : db[ZoneA][k].Content = "1.1.1.1"

\* The zones of the list that the name equals or ends with after a dot.
DotMatches(zs, name) ==
    {z \in Range(zs) : name = z \/ HasSuffix(name, Dot \o z)}

\* The zones of the list that the name ends with after a hyphen.
HyphenMatches(zs, name) == {z \in Range(zs) : HasSuffix(name, Hyphen \o z)}

Longest(S) == CHOOSE z \in S : \A y \in S : Len(y) <= Len(z)

\* getZone has returned for the zone list and the name.
Resolved(zs, name) == output.fn = "getZone" /\ input = GetZoneInput(zs, name)

\* C11: when a zone of the list equals the name or is what the name ends
\* with after a dot, getZone returns the longest such zone and no error;
\* with bar.org, baz.org and subdomain.bar.org, foo.bar.org and
\* foo.otherdomain.bar.org give bar.org, foo.subdomain.bar.org gives
\* subdomain.bar.org, baz.org gives baz.org and foo.foo.org the empty zone.
LongestDotMatch ==
    /\ (output.fn = "getZone" /\ DotMatches(input.zones, input.dnsName) # {})
          => /\ output.ret.err = NoError
             /\ output.ret.zone = Longest(DotMatches(input.zones, input.dnsName))
    /\ \A zs \in OrgZones :
          /\ Resolved(zs, FooBarOrg) => output.ret.zone = BarOrg
          /\ Resolved(zs, FooOtherdomainBarOrg) => output.ret.zone = BarOrg
          /\ Resolved(zs, FooSubdomainBarOrg) => output.ret.zone = SubdomainBarOrg
          /\ Resolved(zs, BazOrg) => output.ret.zone = BazOrg
          /\ Resolved(zs, FooFooOrg) => output.ret.zone = <<>>

\* With the zones a and b.a in this order, a.b.a gives b.a.
LongestDotMatchWitness ==
    /\ Resolved(<<<<"a">>, <<"b", ".", "a">>>>, <<"a", ".", "b", ".", "a">>)
    /\ output.ret = [zone |-> <<"b", ".", "a">>, err |-> NoError]

Remainder(name, z) ==
    IF HasSuffix(name, Dot \o z) THEN SubSeq(name, 1, Len(name) - Len(z) - 1) ELSE name

\* The last k labels of the two label lists are the same, one by one.
SameTail(nameLabels, zoneLabels, k) ==
    \A m \in 1..k :
        nameLabels[Len(nameLabels) - m + 1] = zoneLabels[Len(zoneLabels) - m + 1]

\* The labels of the remainder that stay: all but the longest tail that is
\* the same in the zone, one label at least.
KeptLabels(name, z) ==
    LET nameLabels == Split(Remainder(name, z))
        zoneLabels == Split(z)
        tails == {k \in 0..(Len(nameLabels) - 1) :
                     k <= Len(zoneLabels) /\ SameTail(nameLabels, zoneLabels, k)}
        k == CHOOSE n \in tails : \A m \in tails : m <= n
    IN  SubSeq(nameLabels, 1, Len(nameLabels) - k)

Extracted(name, z) == output.fn = "extractRecordName" /\ input = ExtractRecordNameInput(name, z)

\* C14: extractRecordName returns the empty string for the zone itself;
\* otherwise it returns the name without the zone after a dot and without
\* the trailing labels that are the trailing labels of the zone, one label
\* at least being kept, so that the result is not empty; foo.example.com
\* gives foo, foo.otherdomain.bar.org gives foo.otherdomain,
\* _edns.git.antimatter-studios.com gives _edns.git and
\* _edns.a-example.com.example.com gives _edns.a-example.
RecordNameDerivation ==
    /\ output.fn = "extractRecordName" =>
          IF input.dnsName = input.zone
          THEN output.ret = <<>>
          ELSE /\ output.ret = Join(KeptLabels(input.dnsName, input.zone))
               /\ Len(KeptLabels(input.dnsName, input.zone)) >= 1
               /\ output.ret # <<>>
    /\ Extracted(FooExampleCom, ExampleCom) => output.ret = Foo
    /\ Extracted(FooOtherdomainBarOrg, BarOrg) => output.ret = FooOtherdomain
    /\ Extracted(EdnsGitAntimatterCom, AntimatterCom) => output.ret = EdnsGit
    /\ Extracted(EdnsAExampleComExampleCom, ExampleCom) => output.ret = EdnsAExample

\* b.b.a.b.a in the zone b.a: the remainder b.b.a loses a and b, and b stays.
RecordNameWitness ==
    /\ Extracted(<<"b", ".", "b", ".", "a", ".", "b", ".", "a">>, <<"b", ".", "a">>)
    /\ output.ret = <<"b">>

Mapped(z, records, ep) == output.fn = "getRecIDs" /\ input = GetRecIDsInput(z, records, ep)

\* C15: getRecIDs succeeds exactly when every target of the endpoint has a
\* record in the snapshot with the record name and type of the endpoint and
\* that content; it then returns one identifier for each target, the k-th
\* that of a record that matches the k-th target; when a target has no such
\* record it fails and returns no identifier.  The three calls of
\* testGetRecIDs return [10], [11] and [12, 13].
MatchTargets ==
    /\ output.fn = "getRecIDs" =>
          LET ep == input.ep
              allHeld == \A t \in Range(ep.Targets) :
                             Held(input.records, ep, input.zone, t)
          IN  /\ output.ret.err = NoError <=> allHeld
              /\ output.ret.err = NoError =>
                    /\ Len(output.ret.recIDs) = Len(ep.Targets)
                    /\ \A k \in 1..Len(ep.Targets) :
                          \E rec \in Range(input.records) :
                              /\ rec.ID = output.ret.recIDs[k]
                              /\ rec.Name = extractRecordName(ep.DNSName, input.zone)
                              /\ rec.Type = ep.RecordType
                              /\ rec.Content = ep.Targets[k]
              /\ ~allHeld => output.ret.recIDs = <<>>
    /\ Mapped(ExampleCom, TestRecords, Endpoint(FooExampleCom, "TXT", <<"heritage">>, 0))
          => output.ret = [recIDs |-> <<"10">>, err |-> NoError]
    /\ Mapped(BazOrg, TestRecords, Endpoint(FooBazOrg, "A", <<"5.5.5.5">>, 0))
          => output.ret = [recIDs |-> <<"11">>, err |-> NoError]
    /\ Mapped(BazOrg, TestRecords, Endpoint(BazOrg, "A", <<"5.5.5.5", "5.5.5.6">>, 0))
          => output.ret = [recIDs |-> <<"12", "13">>, err |-> NoError]

\* The snapshot holds f A 1.1.1.1 twice, as the records 0 and 1: for the
\* targets [1.1.1.1, 2.2.2.2] of f.a.o getRecIDs returns [0, 1] and no
\* error, and 2.2.2.2 has no record.
MatchedByCount ==
    /\ Mapped(ZoneA,
              <<NameserverRecord("0", NameserverRecordRequest(ZoneA, <<"f">>, "A", 60, "1.1.1.1")),
                NameserverRecord("1", NameserverRecordRequest(ZoneA, <<"f">>, "A", 60, "1.1.1.1"))>>,
              Endpoint(NameFA, "A", <<"1.1.1.1", "2.2.2.2">>, 60))
    /\ output.ret = [recIDs |-> <<"0", "1">>, err |-> NoError]

\* Records has its result.
RecordsOver == op = "Records" /\ pc \in {"logout", "done"}

\* The reads of the invocation that failed.
ReadFailures ==
    {k \in 1..Len(calls) : calls[k].op \in {"login", "getZones", "getRecords"}
                             /\ calls[k].err # NoError}

\* The entry Records is to report for a live record of a zone.
EntryOf(rec, z) ==
    [DNSName |-> rec.Name \o Dot \o z, RecordType |-> rec.Type,
     Targets |-> <<rec.Content>>, RecordTTL |-> rec.TTL]

\* The live records of all zones, each as its zone and its place there.
LiveRecords(d) == UNION {{<<z, k>> : k \in Live(d, z)} : z \in DOMAIN d}

\* C16: when every registrar call of Records succeeds it returns no error
\* and exactly one entry with one target for each live record of each zone:
\* as many entries with a given name, type, TTL and target as there are live
\* records with them, the name being the record name, a dot and the zone
\* (so none when there is no live record, none for a deleted record, and two
\* for two records of one name and type); when login, getZones or a
\* getRecords fails it returns an error and no entry; it calls only login,
\* getZones, getRecords and logout and leaves the registrar as it was.
ObservedRecords ==
    RecordsOver =>
        /\ \A k \in 1..Len(calls) :
              calls[k].op \in {"login", "getZones", "getRecords", "logout"}
        /\ RegistrarUnchanged
        /\ ReadFailures # {} => result # NoError /\ endpoints = <<>>
        /\ ReadFailures = {} =>
              /\ result = NoError
              /\ Len(endpoints) = Cardinality(LiveRecords(db))
              /\ \A p \in LiveRecords(db) :
                    LET e == EntryOf(db[p[1]][p[2]], p[1])
                    IN  Cardinality({k \in 1..Len(endpoints) : endpoints[k] = e})
                          = Cardinality({q \in LiveRecords(db) :
                                            EntryOf(db[q[1]][q[2]], q[1]) = e})

\* Records has returned two entries for f.a.o, one for each of its two A
\* records, and none for the deleted record of b.o.
ObservedRecordsWitness ==
    /\ RecordsOver
    /\ pc = "done"
    /\ result = NoError
    /\ ZoneB \in DOMAIN db
    /\ \E k \in 1..Len(db[ZoneB]) : db[ZoneB][k].ID = ""
    /\ Len(endpoints) = 2
    /\ {endpoints[k] : k \in 1..2}
          = {Endpoint(NameFA, "A", <<"1.1.1.1">>, 60), Endpoint(NameFA, "A", <<"2.2.2.2">>, 300)}

\* The direct calls of the log that succeeded in deleting the identifier.
Deletions(recID) ==
    {k \in 1..Len(calls) : /\ calls[k].op = "deleteRecord"
                           /\ calls[k].arg = recID
                           /\ calls[k].err = NoError}

\* A deleted record stays deleted and as it was.
DeletedStays ==
    \A z \in DOMAIN db : \A k \in 1..Len(db[z]) :
        db[z][k].ID = "" => /\ z \in DOMAIN db'
                            /\ Len(db'[z]) >= k
                            /\ db'[z][k] = db[z][k]

\* Every getRecords of the log that succeeded returned the live records of
\* its zone and no other.
LiveReturned ==
    \A k \in 1..Len(calls) :
        (calls[k].op = "getRecords" /\ calls[k].err = NoError) =>
            /\ Range(calls[k].ret) = {db[calls[k].arg][m] : m \in Live(db, calls[k].arg)}
            /\ \A m \in 1..Len(calls[k].ret) : calls[k].ret[m].ID # ""

\* No identifier is deleted with success twice.
DeletedOnce ==
    \A k \in 1..Len(calls) :
        calls[k].op = "deleteRecord" =>
            \A m \in Deletions(calls[k].arg) : m < k => calls[k].err # NoError

\* C17: in the fake registrar, once deleteRecord(id) has succeeded the
\* deleted record is never returned by getRecords again, no call changes
\* it, and every later deleteRecord(id) fails, whatever createRecord,
\* updateRecord and deleteRecord calls are made on the zones.
SoftDelete ==
    /\ [](LiveReturned /\ DeletedOnce)
    /\ [][DeletedStays]_vars

\* deleteRecord("0") has succeeded twice: for the record of one zone, and,
\* after a createRecord in the other zone, for the record made there.
DeletedTwice ==
    /\ op = "none"
    /\ Cardinality(Deletions("0")) = 2
    /\ \A z \in Zones : z \in DOMAIN db /\ Len(db[z]) = 1 /\ db[z][1].ID = ""

\* No two live records, of one zone or of two, have the same identifier.
DistinctIDs ==
    \A p, q \in LiveRecords(db) : db[p[1]][p[2]].ID = db[q[1]][q[2]].ID => p = q

\* The index leads from the identifier of a live record to its zone.
Indexed ==
    \A p \in LiveRecords(db) :
        LET id == db[p[1]][p[2]].ID
        IN  id \in DOMAIN idToZone /\ idToZone[id] = p[1]

\* A record keeps its identifier until it is deleted.
StableIDs ==
    \A p \in LiveRecords(db) :
        /\ p[1] \in DOMAIN db'
        /\ Len(db'[p[1]]) >= p[2]
        /\ db'[p[1]][p[2]].ID \in {db[p[1]][p[2]].ID, ""}

\* C18: after any createRecord, updateRecord and deleteRecord calls on the
\* fake registrar, no two records of any zones have the same identifier,
\* the identifier-to-zone index maps the identifier of every live record
\* to the zone that holds it, and no call but its deletion changes the
\* identifier of a record (updateRecord leaves it as it is).
IdentifierUniqueness ==
    /\ [](DistinctIDs /\ Indexed)
    /\ [][StableIDs]_vars

\* Each zone holds a live record with the identifier 0, and the index
\* leads from 0 to b.o alone.
SharedIdentifier ==
    /\ \A z \in Zones : z \in DOMAIN db /\ Len(db[z]) = 1 /\ db[z][1].ID = "0"
    /\ idToZone["0"] = ZoneB

\* The phase a logged call was made in: 1 for the Delete list, 2 for the
\* Create list, 3 for the update pairs; 0 before them and 4 after.
PhaseOf(call) ==
    IF call.op \in {"login", "getZones"} THEN 0
    ELSE IF call.op = "logout" THEN 4
    ELSE IF call.pc \in {"deleteFetch", "deleteRecord"} THEN 1
    ELSE IF call.pc \in {"createFetch", "createTarget"} THEN 2
    ELSE 3

\* The endpoints a phase works on, and those whose targets it writes.
Worked(phase) ==
    IF phase = 1 THEN changes.Delete
    ELSE IF phase = 2 THEN changes.Create
    ELSE changes.UpdateOld

Written(phase) == IF phase = 2 THEN changes.Create ELSE changes.UpdateNew

\* The logged call belongs to the endpoint and the target its place says:
\* a getRecords asks for the zone of that endpoint, a createRecord or an
\* updateRecord writes that target, a deleteRecord of the Delete phase
\* deletes a record that holds a target of that endpoint.
InPlaceOf(call) ==
    LET phase == PhaseOf(call)
    IN  /\ call.ep \in 1..Len(Worked(phase))
        /\ CASE call.op = "getRecords" ->
                    /\ call.tgt = 0
                    /\ ZoneOf(Worked(phase)[call.ep]) = [zone |-> call.arg, err |-> NoError]
             [] call.op \in {"createRecord", "updateRecord"} ->
                    LET ep == Written(phase)[call.ep]
                        rec == IF call.op = "createRecord" THEN call.arg ELSE call.arg.rec
                    IN  /\ phase \in {2, 3}
                        /\ call.tgt \in 1..Len(ep.Targets)
                        /\ rec.Content = ep.Targets[call.tgt]
                        /\ rec.Name = extractRecordName(ep.DNSName, rec.Domain)
                        /\ ZoneOf(ep).zone = rec.Domain
             [] call.op = "deleteRecord" ->
                    /\ phase \in {1, 3}
                    /\ call.tgt >= 1
                    /\ phase = 1 =>
                          LET ep == changes.Delete[call.ep]
                              z == ZoneOf(ep).zone
                          IN  \E rec \in Range(Snapshot("deleteFetch", z, call.ep)) :
                                  rec.ID = call.arg /\ Matches(rec, ep, z)

\* C19: in the call log of a pass, login and then the one getZones come
\* first; every call made for the Delete list comes before every call made
\* for the Create list, and those before every call made for the update
\* pairs; within a phase the calls go through the endpoints in list order
\* and, for one endpoint, through its targets in target order, each call
\* being about the endpoint and the target of its place.
PhaseOrder ==
    op = "ApplyChanges" =>
        /\ \A k \in 1..Len(calls) : calls[k].op = "getZones" <=> k = 2
        /\ \A k \in 1..Len(calls) : PhaseOf(calls[k]) \in 1..3 => InPlaceOf(calls[k])
        /\ \A a, b \in 1..Len(calls) :
              a < b =>
                  /\ PhaseOf(calls[a]) <= PhaseOf(calls[b])
                  /\ (PhaseOf(calls[a]) = PhaseOf(calls[b]) /\ PhaseOf(calls[a]) \in 1..3) =>
                        \/ calls[a].ep < calls[b].ep
                        \/ calls[a].ep = calls[b].ep /\ calls[a].tgt < calls[b].tgt

\* A pass has created the two targets of an endpoint of the Create list, in
\* their order, and has then worked on an update pair.
PhaseOrderWitness ==
    /\ PassOver
    /\ \E a, b, c \in 1..Len(calls) :
          /\ a < b /\ b < c
          /\ calls[a].op = "createRecord" /\ PhaseOf(calls[a]) = 2 /\ calls[a].tgt = 1
          /\ calls[b].op = "createRecord" /\ PhaseOf(calls[b]) = 2 /\ calls[b].tgt = 2
          /\ calls[a].arg.Content = "1.1.1.1" /\ calls[b].arg.Content = "2.2.2.2"
          /\ PhaseOf(calls[c]) = 3

\* The getRecords of the log that succeeded.
Fetched == {k \in 1..Len(calls) : calls[k].op = "getRecords" /\ calls[k].err = NoError}

\* Within a phase the records of a zone are fetched with success once, and
\* not asked for again after that.
OneFetch ==
    \A a \in Fetched : \A b \in 1..Len(calls) :
        (/\ calls[b].op = "getRecords"
         /\ PhaseOf(calls[b]) = PhaseOf(calls[a])
         /\ calls[b].arg = calls[a].arg) => b <= a

\* A getRecords that succeeds returns the live records the zone has then.
FreshFetch ==
    (/\ Len(calls') = Len(calls) + 1
     /\ calls'[Len(calls')].op = "getRecords"
     /\ calls'[Len(calls')].err = NoError) =>
        LET z == calls'[Len(calls')].arg
            IsLive(rec) == rec.ID # ""
        IN  calls'[Len(calls')].ret = SelectSeq(db[z], IsLive)

\* Every endpoint of the pass with a zone has the snapshot of its phase,
\* unless its own getRecords failed, and what was done for its targets is
\* what that snapshot asks for.
DecidedOnSnapshot ==
    /\ \A idx \in 1..Len(changes.Delete) :
          LET ep == changes.Delete[idx]
          IN  ZoneOf(ep).err = NoError =>
                  \/ FetchFailed("deleteFetch", idx)
                  \/ Fetches("deleteFetch", ZoneOf(ep).zone, idx) # {} /\ DeleteAttempted(idx)
    /\ \A idx \in 1..Len(changes.Create) :
          LET ep == changes.Create[idx]
          IN  ZoneOf(ep).err = NoError =>
                  \/ FetchFailed("createFetch", idx)
                  \/ Fetches("createFetch", ZoneOf(ep).zone, idx) # {} /\ CreateAttempted(idx)
    /\ \A idx \in 1..Len(changes.UpdateOld) :
          LET ep == changes.UpdateOld[idx]
          IN  ZoneOf(ep).err = NoError =>
                  \/ FetchFailed("updateFetch", idx)
                  \/ Fetches("updateFetch", ZoneOf(ep).zone, idx) # {} /\ UpdateAttempted(idx)

\* C20: within a phase of a pass getRecords succeeds at most once for a
\* zone, and every endpoint and target of the phase in that zone is decided
\* on that snapshot, also when the phase has changed the zone since; every
\* phase fetches for itself, and what it fetches are the live records of
\* the zone at that moment, the changes of the earlier phases included.
PhaseCache ==
    /\ [](op = "ApplyChanges" => (OneFetch /\ ((PassOver /\ Listed) => DecidedOnSnapshot)))
    /\ [][op = "ApplyChanges" => FreshFetch]_vars

\* Two endpoints of the Create list ask for f.a.o 1.1.1.1 on an empty zone:
\* one getRecords, which returned no record, and two createRecord calls,
\* the second decided on that snapshot after the first had changed the zone.
PhaseCacheWitness ==
    /\ PassOver
    /\ Len(changes.Create) = 2
    /\ Cardinality(Fetched) = 1
    /\ \A k \in Fetched : calls[k].arg = ZoneA /\ calls[k].ret = <<>> /\ calls[k].ep = 1
    /\ \A idx \in 1..2 : \E e \in At("createTarget", idx, 1) :
          /\ calls[e].op = "createRecord"
          /\ calls[e].err = NoError
          /\ calls[e].arg.Content = "1.1.1.1"
          /\ calls[e].arg.Domain = ZoneA

\* The endpoint to delete at index idx cannot be matched: it has no zone,
\* the records of its zone could not be fetched, or a target of it has no
\* record in the snapshot.
Unmatched(idx) ==
    LET ep == changes.Delete[idx]
        z == ZoneOf(ep)
    IN  \/ z.err # NoError
        \/ Fetches("deleteFetch", z.zone, idx) = {}
        \/ \E t \in Range(ep.Targets) :
               ~Held(Snapshot("deleteFetch", z.zone, idx), ep, z.zone, t)

\* The deleteRecord calls made for the endpoint to delete at index idx.
DeleteCalls(idx) ==
    {e \in 1..Len(calls) : calls[e].pc = "deleteRecord" /\ calls[e].ep = idx}

\* C21: in the Delete phase an endpoint whose zone is not found, whose
\* records cannot be fetched or a target of which has no record in the
\* snapshot gets no deleteRecord and the pass returns a failure (one error
\* for each such endpoint when the ChangeSet only deletes); an endpoint that
\* is matched gets one deleteRecord for each identifier, a failed one not
\* stopping the others.
DeleteAllOrNothing ==
    (PassOver /\ Listed) =>
        /\ \A idx \in 1..Len(changes.Delete) :
              IF Unmatched(idx)
              THEN DeleteCalls(idx) = {} /\ result # NoError
              ELSE DeleteAttempted(idx)
        /\ (Len(changes.Create) = 0 /\ Len(changes.UpdateOld) = 0) =>
              LET n == Cardinality({idx \in 1..Len(changes.Delete) : Unmatched(idx)})
                       + Cardinality({e \in 1..Len(calls) : calls[e].op = "deleteRecord"
                                                             /\ calls[e].err # NoError})
              IN  result = IF n = 0 THEN NoError
                           ELSE [kind |-> "plain", what |-> "aggregate", count |-> n]

\* The zone a.o holds f A 1.1.1.1 twice; the endpoint to delete f.a.o with
\* the targets [1.1.1.1, 2.2.2.2] has no record for 2.2.2.2, and both
\* records were deleted and the pass returned success.
DeletedUnmatched ==
    /\ PassOver
    /\ Listed
    /\ changes = Changes(<<Endpoint(NameFA, "A", <<"1.1.1.1", "2.2.2.2">>, 60)>>,
                         <<>>, <<>>, <<>>)
    /\ Unmatched(1)
    /\ Cardinality(DeleteCalls(1)) = 2
    /\ NoCallFailed
    /\ result = NoError
    /\ Live(db, ZoneA) = {}

\* The update pair at index idx is on the paired path: its records were
\* fetched and getRecIDs returned an identifier for every old target.
PairedPath(idx) ==
    LET oldEp == changes.UpdateOld[idx]
        z == ZoneOf(oldEp)
    IN  /\ z.err = NoError
        /\ Fetches("updateFetch", z.zone, idx) # {}
        /\ getRecIDs(z.zone, Snapshot("updateFetch", z.zone, idx), oldEp).err = NoError

\* The identifiers of the old targets of the pair.
PairIDs(idx) ==
    LET oldEp == changes.UpdateOld[idx]
        z == ZoneOf(oldEp).zone
    IN  getRecIDs(z, Snapshot("updateFetch", z, idx), oldEp).recIDs

\* The one call the paired path is to make at index k (from 1) of the pair.
PlannedCall(idx, k) ==
    LET oldEp == changes.UpdateOld[idx]
        newEp == changes.UpdateNew[idx]
        z == ZoneOf(oldEp).zone
        name == extractRecordName(newEp.DNSName, z)
    IN  IF k > Len(newEp.Targets)
        THEN [op |-> "deleteRecord", arg |-> PairIDs(idx)[k]]
        ELSE IF k > Len(oldEp.Targets)
        THEN [op |-> "createRecord",
              arg |-> [Domain |-> z, Name |-> name, Type |-> newEp.RecordType,
                       TTL |-> newEp.RecordTTL, Content |-> newEp.Targets[k]]]
        ELSE [op |-> "updateRecord",
              arg |-> [id |-> PairIDs(idx)[k],
                       rec |-> [Domain |-> z, Name |-> name, Type |-> newEp.RecordType,
                                TTL |-> oldEp.RecordTTL, Content |-> newEp.Targets[k]]]]

\* C22: for an update pair whose old targets all got identifiers, the pass
\* makes exactly one call for each index up to the longer of the two target
\* lists and none beyond: updateRecord on the identifier of the index with
\* the record name and type of the new endpoint, its target of the index
\* and the TTL of the old endpoint where both lists have the index,
\* deleteRecord of the identifier where only the old list has it,
\* createRecord with the TTL of the new endpoint where only the new list has
\* it; there are as many identifiers as old targets; and when no call fails
\* and the lists are equally long, the record of each identifier is live
\* after the pass, with that identifier and the new target of its index.
PairedPlan ==
    (PassOver /\ Listed) =>
        \A idx \in 1..Len(changes.UpdateOld) :
            PairedPath(idx) =>
                LET oldEp == changes.UpdateOld[idx]
                    newEp == changes.UpdateNew[idx]
                    z == ZoneOf(oldEp).zone
                    n == Max(Len(oldEp.Targets), Len(newEp.Targets))
                IN  /\ Len(PairIDs(idx)) = Len(oldEp.Targets)
                    /\ \A e \in PairCalls(idx) : calls[e].pc = "paired" /\ calls[e].tgt \in 1..n
                    /\ \A k \in 1..n :
                          \E e \in At("paired", idx, k) :
                              /\ At("paired", idx, k) = {e}
                              /\ calls[e].op = PlannedCall(idx, k).op
                              /\ calls[e].arg = PlannedCall(idx, k).arg
                    /\ (NoCallFailed /\ Len(oldEp.Targets) = Len(newEp.Targets)) =>
                          \A k \in 1..n :
                              \E m \in Live(db, z) :
                                  /\ db[z][m].ID = PairIDs(idx)[k]
                                  /\ db[z][m].Content = newEp.Targets[k]

\* The pair f.a.o [1.1.1.1, 1.1.1.1] -> [1.1.1.1, 2.2.2.2] was applied to a
\* zone with the one record f A 1.1.1.1: both old targets got the identifier
\* 0, updateRecord was called on it twice, the pass returned success, and
\* the zone holds 2.2.2.2 and no record with 1.1.1.1.
PairedOnOneRecord ==
    /\ PassOver
    /\ Listed
    /\ NoCallFailed
    /\ result = NoError
    /\ changes.UpdateOld = <<Endpoint(NameFA, "A", <<"1.1.1.1", "1.1.1.1">>, 60)>>
    /\ changes.UpdateNew = <<Endpoint(NameFA, "A", <<"1.1.1.1", "2.2.2.2">>, 300)>>
    /\ PairedPath(1)
    /\ PairIDs(1) = <<"0", "0">>
    /\ \A e \in PairCalls(1) : calls[e].op = "updateRecord" /\ calls[e].arg.id = "0"
    /\ Cardinality(PairCalls(1)) = 2
    /\ Live(db, ZoneA) = {1}
    /\ db[ZoneA][1].Content = "2.2.2.2"

\* The logged calls that failed, apart from the createRecord calls that met
\* the object-exists condition.
Grave ==
    {k \in 1..Len(calls) :
        /\ calls[k].err # NoError
        /\ ~(calls[k].op = "createRecord" /\ calls[k].err = APIError(2302))}

\* The createRecord calls that met the object-exists condition.
Benign ==
    {k \in 1..Len(calls) : calls[k].op = "createRecord" /\ calls[k].err = APIError(2302)}

\* C23: a createRecord that fails with the object-exists condition, in the
\* Create phase, on the fallback path or in the create branch of the paired
\* path, is not recorded: a pass in which nothing else failed returns
\* success; a createRecord that fails otherwise, and an updateRecord or a
\* deleteRecord that fails with any error, the object-exists condition
\* included, makes the pass return the aggregate failure.
ObjectExistsBenign ==
    (PassOver /\ Listed) =>
        /\ (\E k \in Grave : calls[k].op \in {"createRecord", "updateRecord", "deleteRecord"})
              => (result # NoError /\ result.what = "aggregate")
        /\ (Grave = {} /\ ZoneFailures = 0 /\ MappingFailures = 0) => result = NoError
        /\ \A k \in Benign : calls[k].pc \in {"createTarget", "fallback", "paired"}

\* On the fallback path of an update pair the createRecord met the
\* object-exists condition, nothing else failed, and the pass returned
\* success.
ObjectExistsWitness ==
    /\ PassOver
    /\ Listed
    /\ result = NoError
    /\ \E k \in Benign : calls[k].pc = "fallback"
    /\ Grave = {}

\* A pass that only creates has ended: every endpoint has a zone and no
\* registrar call failed.
CreatedOnly ==
    /\ PassOver
    /\ Listed
    /\ Len(changes.Delete) = 0
    /\ Len(changes.UpdateOld) = 0
    /\ Len(changes.Create) > 0
    /\ NoCallFailed
    /\ \A idx \in 1..Len(changes.Create) : ZoneOf(changes.Create[idx]).err = NoError

\* The zone of the endpoint holds a live record with its record name, its
\* type and the content.
Present(d, ep, content) ==
    LET z == ZoneOf(ep).zone
    IN  \E k \in Live(d, z) :
            /\ d[z][k].Name = extractRecordName(ep.DNSName, z)
            /\ d[z][k].Type = ep.RecordType
            /\ d[z][k].Content = content

\* C24: after a pass that only creates, all endpoints of which have a zone
\* and no registrar call of which failed, every target of every endpoint has
\* a live record with the record name and type of the endpoint and that
\* content in its zone, whatever records the registrar held before.
CreateConvergence ==
    CreatedOnly =>
        \A idx \in 1..Len(changes.Create) :
            \A t \in Range(changes.Create[idx].Targets) : Present(db, changes.Create[idx], t)

\* a.o held the one record f A 1.1.1.1; Create = [f.a.o [2.2.2.2],
\* f.a.o [1.1.1.1]]: the first endpoint updated the record to 2.2.2.2, the
\* second was skipped on the snapshot taken before, and no record holds
\* 1.1.1.1 after the pass, which returned success.
CreateLostTarget ==
    /\ CreatedOnly
    /\ result = NoError
    /\ changes.Create = <<Endpoint(NameFA, "A", <<"2.2.2.2">>, 60),
                          Endpoint(NameFA, "A", <<"1.1.1.1">>, 60)>>
    /\ Cardinality(Live(start.db, ZoneA)) = 1
    /\ Present(start.db, changes.Create[2], "1.1.1.1")
    /\ ~Present(db, changes.Create[2], "1.1.1.1")
    /\ Present(db, changes.Create[1], "2.2.2.2")

\* A ChangeSet that only creates was applied twice: every endpoint has a
\* zone and no registrar call failed in either pass.
BatchAppliedTwice ==
    /\ op = "ApplyChanges"
    /\ pc = "done"
    /\ prev.op = "ApplyChanges"
    /\ prev.changes = changes
    /\ Len(changes.Delete) = 0
    /\ Len(changes.UpdateOld) = 0
    /\ Len(changes.Create) > 0
    /\ \A e \in 1..Len(prev.calls) : prev.calls[e].err = NoError
    /\ NoCallFailed
    /\ \A idx \in 1..Len(changes.Create) : ZoneOf(changes.Create[idx]).err = NoError

\* C25: when a ChangeSet that only creates, of one or several endpoints,
\* was applied without a failure and is applied again, the second pass
\* makes no createRecord, updateRecord or deleteRecord call and leaves the
\* records of the registrar as the first pass left them.
BatchIdempotence ==
    BatchAppliedTwice =>
        /\ \A e \in 1..Len(calls) :
              calls[e].op \notin {"createRecord", "updateRecord", "deleteRecord"}
        /\ db = start.db

\* a.o held the one record f A 1.1.1.1 and Create = [f.a.o [2.2.2.2],
\* f.a.o [1.1.1.1]] was applied twice: the first pass updated the record to
\* 2.2.2.2, the second pass updated it back to 1.1.1.1.
BatchFlipped ==
    /\ BatchAppliedTwice
    /\ changes.Create = <<Endpoint(NameFA, "A", <<"2.2.2.2">>, 60),
                          Endpoint(NameFA, "A", <<"1.1.1.1">>, 60)>>
    /\ prev.result = NoError
    /\ result = NoError
    /\ \E e \in 1..Len(calls) : calls[e].op = "updateRecord" /\ calls[e].arg.id = "0"
    /\ Live(db, ZoneA) = {1}
    /\ start.db[ZoneA][1].Content = "2.2.2.2"
    /\ db[ZoneA][1].Content = "1.1.1.1"

\* ------------------------------------------------------------------------
\* The name Records reports for a record, mapped back.

\* Records has reported the record of the zone and the reported name was
\* given to getZone and to extractRecordName.
Reported == output.fn = "observed"

\* The reported name has led back to the zone of the record.
ZoneFound == output.ret = [zone |-> input.zone, err |-> NoError]

\* The reported name has led back to the record name.
NameFound == output.name = input.rec.Name

\* A longer zone of the list is the reported name or what it ends with
\* after a dot.
LongerZoneMatches ==
    \E z \in DotMatches(input.zones, output.ep.DNSName) : Len(z) > Len(input.zone)

\* The record name has several labels and its last label is the last label
\* of the zone.
EndsLikeZone ==
    LET nameLabels == Split(input.rec.Name)
        zoneLabels == Split(input.zone)
    IN  /\ Len(nameLabels) > 1
        /\ nameLabels[Len(nameLabels)] = zoneLabels[Len(zoneLabels)]

\* C26: for every record with record name N in a zone Z of the zone list,
\* the name that Records reports for it, N, a dot and Z, gives Z with
\* getZone and N with extractRecordName, also for the apex, for record
\* names with dots and for a zone list with a zone and a subdomain of it.
ObservedRoundTrip == Reported => ZoneFound /\ NameFound

\* C26, amended: the reported name gives Z with getZone unless a longer
\* zone of the list is that name or what it ends with after a dot, and N
\* with extractRecordName unless N has several labels the last of which is
\* the last label of Z; in these two cases it gives the longer zone and a
\* name without the labels N shares with the end of Z.
ObservedRoundTripUnlessShadowed ==
    Reported =>
        /\ ZoneFound <=> ~LongerZoneMatches
        /\ NameFound <=> ~EndsLikeZone
        /\ output.ret.err = NoError
        /\ output.ret.zone = Longest(DotMatches(input.zones, output.ep.DNSName))
        /\ output.name = Join(KeptLabels(output.ep.DNSName, input.zone))

\* The apex record of bar.org and its record foo.otherdomain, with the
\* zones bar.org, baz.org and subdomain.bar.org: both names lead back.
ObservedRoundTripWitness ==
    /\ Reported
    /\ input.zones \in OrgZones
    /\ input.zone = BarOrg
    /\ input.rec.Name = FooOtherdomain
    /\ output.ep.DNSName = FooOtherdomainBarOrg
    /\ ZoneFound
    /\ NameFound

\* ------------------------------------------------------------------------
\* What a pass for one zone does to the other zones.

\* The endpoints of the ChangeSet.
ChangedEndpoints ==
    Range(changes.Delete) \cup Range(changes.Create)
        \cup Range(changes.UpdateOld) \cup Range(changes.UpdateNew)

\* Every endpoint of the ChangeSet resolves to the zone.
PassFor(z) ==
    /\ op = "ApplyChanges"
    /\ ChangedEndpoints # {}
    /\ \A ep \in ChangedEndpoints : ZoneOf(ep) = [zone |-> z, err |-> NoError]

\* C27: during and after a pass all of whose endpoints resolve to one zone,
\* getRecords returns for every other zone the records it returned when
\* the pass began, with their identifiers, names, types, contents and
\* TTLs, whatever records were created in the zones before.
ZoneFrame ==
    \A z \in DOMAIN db :
        PassFor(z) =>
            \A y \in DOMAIN db \ {z} : Returned(db, y) = Returned(start.db, y)

\* a.o and b.o hold one record f A 1.1.1.1 each, both with the identifier
\* "0"; the pass that deletes f.a.o [1.1.1.1] and creates f.a.o [2.2.2.2]
\* succeeds: the record of b.o is gone, and the record of a.o, still there
\* after the Delete phase, has been given the content 2.2.2.2.
DeletedFromOtherZone ==
    /\ PassFor(ZoneA)
    /\ pc = "done"
    /\ changes = Changes(<<Endpoint(NameFA, "A", <<"1.1.1.1">>, 60)>>,
                         <<Endpoint(NameFA, "A", <<"2.2.2.2">>, 60)>>, <<>>, <<>>)
    /\ NoCallFailed
    /\ result = NoError
    /\ Returned(start.db, ZoneA) = {NameserverRecord("0",
            NameserverRecordRequest(ZoneA, <<"f">>, "A", 60, "1.1.1.1"))}
    /\ Returned(start.db, ZoneB) = Returned(start.db, ZoneA)
    /\ Returned(db, ZoneA) = {NameserverRecord("0",
            NameserverRecordRequest(ZoneA, <<"f">>, "A", 60, "2.2.2.2"))}
    /\ Returned(db, ZoneB) = {}
    /\ \E e \in 1..Len(calls) : calls[e].op = "deleteRecord" /\ calls[e].arg = "0"

====
